---- MODULE Spec2Model ----
(***************************************************************************)
(* A model of the Procreate document reader (src/src/procreate_reader.py): *)
(* the keyed-archive object graph and its single-hop reference resolution, *)
(* metadata and layer extraction, the tile decode chain, per-layer tile    *)
(* assembly and the alpha-over compositor.                                 *)
(*                                                                         *)
(* Python values are tagged records [t |-> <type>, v |-> <payload>] so     *)
(* that values of different Python types can be compared.  Floats are      *)
(* carried as a whole number of quarters (v = 4 * value): every float the  *)
(* model uses is a dyadic rational, for which Python's float arithmetic on *)
(* 8-bit channel values is exact.                                          *)
(***************************************************************************)
EXTENDS Integers, Sequences, FiniteSets, TLC

VARIABLES
    file,   \* the container on disk that is opened
    status, \* "new" before ProcreateFile(path), then "open" or "failed"
    pf,     \* the fields of the ProcreateFile object
    closes, \* how many times the archive handle's close() has run
    last,   \* the last call made on the object, with its argument and result
    fn,     \* pure-function specifications: the function applied ("" before)
    inp,    \* pure-function specifications: its input
    out     \* pure-function specifications: its result

vars == <<file, status, pf, closes, last, fn, inp, out>>

(***************************************************************************)
(* Python values                                                           *)
(***************************************************************************)
None == [t |-> "none"]
VInt(n) == [t |-> "int", v |-> n]
VBool(b) == [t |-> "bool", v |-> b]
VFloat(q) == [t |-> "float", v |-> q]
VStr(s) == [t |-> "str", v |-> s]
VBytes(s) == [t |-> "bytes", v |-> s]
VUid(n) == [t |-> "uid", v |-> n]
VDict(d) == [t |-> "dict", v |-> d]
VList(s) == [t |-> "list", v |-> s]

\* A raised exception, as the result of an operation that may raise.
Raised(kind) == [t |-> "raised", v |-> kind]

IsRaised(x) == x.t = "raised"

\* name = value, then the statements that follow it: value is worked out once
\* and Rest sees it under the name of its parameter.
With(value, Rest(_)) == Rest(value)

\* isinstance(x, int): bool is a subclass of int.
IsInt(x) == x.t \in {"int", "bool"}

\* The integer a Python int or bool stands for.
IntOf(x) == IF x.t = "bool" THEN (IF x.v THEN 1 ELSE 0) ELSE x.v

\* Python's list[idx]: negative indices count from the end, anything outside
\* raises IndexError.
ListGet(s, idx) ==
    IF idx >= Len(s) \/ idx < -Len(s) THEN Raised("IndexError")
    ELSE IF idx < 0 THEN s[Len(s) + idx + 1]
    ELSE s[idx + 1]

(***************************************************************************)
(* ProcreateFile._resolve_uid                                              *)
(***************************************************************************)
\* The index a reference stands for, None when it is no reference.
UidIndex(uid) ==
    IF IsInt(uid) THEN VInt(IntOf(uid))
    ELSE IF uid.t = "uid" THEN VInt(uid.v)
    ELSE None

\* A mutation of ResolveUid: the upper bound is checked with <=, the lower
\* bound not at all.
ResolveUid_Unguarded(uid, objects) ==
    IF uid.t = "none" THEN None
    ELSE LET idx == UidIndex(uid) IN
         IF idx.t # "none" /\ idx.v <= Len(objects)
         THEN ListGet(objects, idx.v)
         ELSE None

ResolveUid(uid, objects) ==
    IF uid.t = "none" THEN None
    ELSE LET idx == UidIndex(uid) IN
         IF idx.t # "none" /\ 0 <= idx.v /\ idx.v < Len(objects)
         THEN ListGet(objects, idx.v)
         ELSE None

(***************************************************************************)
(* Python helpers used by the metadata code                                *)
(***************************************************************************)
EmptyDict == [k \in {} |-> None]

\* d.get(key, default) on a dict's mapping.
DictGet(d, key, default) == IF key \in DOMAIN d THEN d[key] ELSE default

\* bool(x).  A plistlib.UID and a PIL image define neither __bool__ nor __len__.
Truthy(x) ==
    CASE x.t = "none" -> FALSE
      [] x.t = "bool" -> x.v
      [] x.t \in {"int", "float"} -> x.v # 0
      [] x.t = "str" -> x.v # ""
      [] x.t \in {"bytes", "list"} -> Len(x.v) > 0
      [] x.t = "dict" -> DOMAIN x.v # {}
      [] OTHER -> TRUE

\* isinstance(x, (int, float))
IsNumber(x) == x.t \in {"int", "bool", "float"}

\* int(n / d) for d > 0: Python's int() truncates toward zero.
TruncDiv(n, d) == IF n >= 0 THEN n \div d ELSE -((-n) \div d)

\* int(x) of a number (floats are carried in quarters).
ToInt(x) == IF x.t = "float" THEN TruncDiv(x.v, 4) ELSE IntOf(x)

\* float(x) of a number, in quarters.
ToFloatQ(x) == IF x.t = "float" THEN x.v ELSE 4 * IntOf(x)

\* struct.unpack(">i", b)[0] on four bytes: a big-endian signed 32-bit integer.
UnpackBE32(b) ==
    (IF b[1] >= 128 THEN b[1] - 256 ELSE b[1]) * 16777216
        + b[2] * 65536 + b[3] * 256 + b[4]

(***************************************************************************)
(* ProcreateFile._get_int                                                  *)
(***************************************************************************)
RECURSIVE GetInt(_, _, _)
GetInt(d, keys, default) ==
    IF keys = <<>> THEN default
    ELSE LET val == DictGet(d, Head(keys), None) IN
         IF val.t = "none" THEN GetInt(d, Tail(keys), default)
         ELSE IF IsNumber(val) THEN ToInt(val)
         ELSE IF val.t = "bytes" /\ Len(val.v) >= 4
              THEN UnpackBE32(SubSeq(val.v, 1, 4))
         ELSE GetInt(d, Tail(keys), default)

(***************************************************************************)
(* ProcreateFile._load_document_archive                                    *)
(*                                                                         *)
(* entries are what the container holds under "Document.archive" and       *)
(* "document.archive", in that order: "absent", "garbage" (plistlib.loads  *)
(* raises) or [plist |-> value].  The result is the pair of fields         *)
(* _document_archive and _archive_objects.                                 *)
(***************************************************************************)
RECURSIVE LoadDocumentArchive(_, _)
LoadDocumentArchive(entries, fields) ==
    IF entries = <<>> THEN fields
    ELSE LET e == Head(entries) IN
         IF e.kind # "plist" THEN LoadDocumentArchive(Tail(entries), fields)
         ELSE IF e.value.t = "dict"
              THEN [document_archive |-> e.value,
                    archive_objects |-> DictGet(e.value.v, "$objects", VList(<<>>))]
              \* .get on a value that is no dict raises inside the try, after the
              \* assignment to _document_archive
              ELSE LoadDocumentArchive(Tail(entries),
                       [fields EXCEPT !.document_archive = e.value])

\* _resolve_uid on the loaded fields.  "$objects" is a list in every archive the
\* encoder writes; the model also admits a number there, on which the len() of
\* the bounds test raises TypeError once the reference has an index.
ResolveRef(uid, objects) ==
    IF uid.t = "none" \/ UidIndex(uid).t = "none" THEN None
    ELSE IF objects.t = "list" THEN ResolveUid(uid, objects.v)
    ELSE Raised("TypeError")

(***************************************************************************)
(* ProcreateFile._get_root_object                                          *)
(***************************************************************************)
GetRootObject(document_archive, objects) ==
    IF ~Truthy(document_archive) THEN None
    ELSE IF document_archive.t # "dict" THEN Raised("AttributeError")
    ELSE LET top == DictGet(document_archive.v, "$top", VDict(EmptyDict)) IN
         IF top.t # "dict" THEN Raised("AttributeError")
         ELSE LET root == ResolveRef(DictGet(top.v, "root", None), objects) IN
              IF IsRaised(root) THEN root
              ELSE IF root.t = "dict" THEN root
              ELSE IF objects.t # "list" THEN Raised("TypeError")
              ELSE IF Len(objects.v) > 1 /\ objects.v[2].t = "dict"
                   THEN objects.v[2]
              ELSE None

(***************************************************************************)
(* ProcreateFile._parse_metadata                                           *)
(*                                                                         *)
(* self is the record of the object's fields; the result is the record     *)
(* after the call, or Raised.                                              *)
(***************************************************************************)
WidthKeys ==
    << "SilicaDocumentArchiveDimensionWidth", "width", "canvasWidth", "tileSize" >>

HeightKeys ==
    << "SilicaDocumentArchiveDimensionHeight", "height", "canvasHeight" >>

DpiKeys == << "SilicaDocumentArchiveDPI", "dpi" >>

OrientationKeys == << "SilicaDocumentArchiveOrientation", "orientation" >>

DefaultDpi == 132

\* x not in (False, None, "$null"): Python compares with ==, and 0 == False.
VideoEnabled(x) ==
    ~( \/ x.t = "none"
       \/ (IsNumber(x) /\ ToFloatQ(x) = 0)
       \/ x = VStr("$null") )

\* The body of _parse_metadata once the root object is in hand.
ParseMetadataFrom(self, root) ==
    LET w == GetInt(root, WidthKeys, 0)
        h == GetInt(root, HeightKeys, 0)
        dpi == GetInt(root, DpiKeys, 0)
        cp == ResolveRef(DictGet(root, "SilicaDocumentArchiveICCProfileData", None),
                         self.archive_objects)
    IN  IF IsRaised(cp) THEN cp
        ELSE [self EXCEPT
                !.canvas_width =
                    IF w = 0 /\ self.thumbnail.t # "none" THEN self.thumbnail.width
                    ELSE w,
                !.canvas_height =
                    IF h = 0 /\ self.thumbnail.t # "none" THEN self.thumbnail.height
                    ELSE h,
                !.dpi = IF dpi > 0 THEN dpi ELSE @,
                !.orientation = GetInt(root, OrientationKeys, 0),
                !.video_enabled =
                    VideoEnabled(DictGet(root, "SilicaDocumentVideoSegmentInfoKey",
                                         VBool(FALSE))),
                !.color_profile = IF cp.t = "str" THEN cp.v ELSE @,
                !.metadata =
                    [k \in { k \in DOMAIN root :
                               root[k].t \in {"str", "int", "float", "bool"} }
                       |-> root[k]]]

ParseMetadata(self) ==
    With(GetRootObject(self.document_archive, self.archive_objects), LAMBDA root :
    IF IsRaised(root) THEN root
    ELSE IF ~Truthy(root) THEN self
    ELSE ParseMetadataFrom(self, root.v))

(***************************************************************************)
(* ProcreateFile._parse_layers and _parse_layers_fallback                  *)
(***************************************************************************)
\* f"Layer {n}"
PlaceholderName(n) ==
    << "Layer 1", "Layer 2", "Layer 3", "Layer 4", "Layer 5", "Layer 6",
       "Layer 7", "Layer 8" >>[n]

\* "SilicaLayer" in classname, for the class names of the model.
ContainsLayerMarker(classname) ==
    classname \in {"SilicaLayer", "SilicaLayerGroup", "ValkyrieSilicaLayer"}

\* "SilicaLayer" in classname: a substring test on a string, a membership test
\* on a list or on a mapping's keys, TypeError on anything else.
MarkerIn(classname) ==
    CASE classname.t = "str" -> VBool(ContainsLayerMarker(classname.v))
      [] classname.t = "list" ->
            VBool(\E k \in 1 .. Len(classname.v) : classname.v[k] = VStr("SilicaLayer"))
      [] classname.t = "dict" -> VBool("SilicaLayer" \in DOMAIN classname.v)
      [] OTHER -> Raised("TypeError")

\* What "for ref in obj_refs" iterates over: the elements of a list, the byte
\* values of a bytes object; the characters of a string and the keys of a mapping
\* are strings, which resolve to nothing; anything else is not iterable.
IterRefs(obj_refs) ==
    CASE obj_refs.t = "list" -> obj_refs
      [] obj_refs.t = "bytes" ->
            VList([k \in 1 .. Len(obj_refs.v) |-> VInt(obj_refs.v[k])])
      [] obj_refs.t \in {"str", "dict"} -> VList(<<>>)
      [] OTHER -> Raised("TypeError")

\* ProcreateLayer(name, uuid, opacity, visible, blend_mode)
ProcreateLayer(name, uuid, opacity, visible, blend_mode) ==
    [name |-> name, uuid |-> uuid, opacity |-> opacity, visible |-> visible,
     blend_mode |-> blend_mode]

\* _resolve_layer_field: the first key whose value resolves to something that is
\* no mapping, or is itself a string.
RECURSIVE ResolveLayerField(_, _, _)
ResolveLayerField(layer_dict, keys, objects) ==
    IF keys = <<>> THEN None
    ELSE With(DictGet(layer_dict, Head(keys), None), LAMBDA val :
         IF val.t = "none" THEN ResolveLayerField(layer_dict, Tail(keys), objects)
         ELSE With(ResolveRef(val, objects), LAMBDA resolved :
              IF IsRaised(resolved) THEN resolved
              ELSE IF resolved.t \notin {"none", "dict"} THEN resolved
              ELSE IF val.t = "str" THEN val
              ELSE ResolveLayerField(layer_dict, Tail(keys), objects)))

\* The layer built from one resolved layer mapping; count is len(self.layers).
LayerFromDict(layer_dict, count, objects) ==
    LET opacity == DictGet(layer_dict, "contentsOpacity",
                       DictGet(layer_dict, "opacity",
                           DictGet(layer_dict, "SilicaLayerArchiveOpacity", VFloat(4))))
        hidden == DictGet(layer_dict, "hidden",
                      DictGet(layer_dict, "SilicaLayerArchiveHidden", VBool(FALSE)))
        blend == DictGet(layer_dict, "extendedBlend",
                     DictGet(layer_dict, "blend",
                         DictGet(layer_dict, "blendMode", VInt(0))))
    IN  With(ResolveLayerField(layer_dict, <<"name", "SilicaLayerArchiveName">>,
                               objects), LAMBDA name :
        IF IsRaised(name) THEN name
        ELSE With(ResolveLayerField(layer_dict,
                      <<"UUID", "uuid", "SilicaLayerArchiveUUID">>, objects),
                  LAMBDA uuid :
             IF IsRaised(uuid) THEN uuid
             ELSE ProcreateLayer(
                      IF name.t = "str" THEN name.v ELSE PlaceholderName(count + 1),
                      IF uuid.t = "str" THEN uuid.v ELSE "",
                      IF IsNumber(opacity) THEN ToFloatQ(opacity) ELSE 4,
                      ~Truthy(hidden),
                      IF IsNumber(blend) THEN ToInt(blend) ELSE 0)))

\* The loop over obj_refs; layers is self.layers so far.  The result is the list
\* of layers, or Raised.
RECURSIVE LayersFromRefs(_, _, _)
LayersFromRefs(obj_refs, layers, objects) ==
    IF obj_refs = <<>> THEN VList(layers)
    ELSE With(ResolveRef(Head(obj_refs), objects), LAMBDA layer_dict :
         IF IsRaised(layer_dict) THEN layer_dict
         ELSE IF layer_dict.t # "dict"
              THEN LayersFromRefs(Tail(obj_refs), layers, objects)
         ELSE With(LayerFromDict(layer_dict.v, Len(layers), objects), LAMBDA layer :
              IF "name" \notin DOMAIN layer THEN layer
              ELSE LayersFromRefs(Tail(obj_refs), Append(layers, layer), objects)))

\* _parse_layers_fallback: the loop over the objects still to scan.
RECURSIVE LayersFallback(_, _, _)
LayersFallback(rest, layers, objects) ==
    IF rest = <<>> THEN VList(layers)
    ELSE With(Head(rest), LAMBDA obj :
         With(IF obj.t = "dict"
              THEN ResolveRef(DictGet(obj.v, "$class", None), objects)
              ELSE None, LAMBDA cls_obj :
         IF obj.t # "dict" \/ cls_obj.t # "dict"
         THEN LayersFallback(Tail(rest), layers, objects)
         ELSE With(MarkerIn(DictGet(cls_obj.v, "$classname", VStr(""))), LAMBDA marked :
              IF IsRaised(marked) THEN marked
              ELSE IF ~marked.v THEN LayersFallback(Tail(rest), layers, objects)
              ELSE With(ResolveRef(
                            DictGet(obj.v, "name",
                                DictGet(obj.v, "SilicaLayerArchiveName", None)),
                            objects), LAMBDA name :
                   LET opacity == DictGet(obj.v, "contentsOpacity",
                                      DictGet(obj.v, "opacity", VFloat(4)))
                       hidden == DictGet(obj.v, "hidden", VBool(FALSE))
                   IN  LayersFallback(Tail(rest),
                           Append(layers,
                               ProcreateLayer(
                                   IF name.t = "str" THEN name.v
                                   ELSE PlaceholderName(Len(layers) + 1),
                                   "",
                                   IF IsNumber(opacity) THEN ToFloatQ(opacity) ELSE 4,
                                   ~Truthy(hidden),
                                   0)),
                           objects)))))

\* The list the layer references are read from.
LayerRefs(root, objects) ==
    With(ResolveRef(DictGet(root, "SilicaDocumentArchiveLayers",
                        DictGet(root, "layers", None)),
                    objects), LAMBDA layers_ref :
    IF IsRaised(layers_ref) THEN layers_ref
    ELSE IF layers_ref.t = "dict"
         THEN DictGet(layers_ref.v, "NS.objects", VList(<<>>))
    ELSE IF layers_ref.t = "list" THEN layers_ref
    ELSE VList(<<>>))

ParseLayers(self) ==
    With(GetRootObject(self.document_archive, self.archive_objects), LAMBDA root :
    IF IsRaised(root) THEN root
    ELSE IF ~Truthy(root) THEN self
    ELSE With(LayerRefs(root.v, self.archive_objects), LAMBDA obj_refs :
         IF IsRaised(obj_refs) THEN obj_refs
         ELSE With(IterRefs(obj_refs), LAMBDA refs :
              IF IsRaised(refs) THEN refs
              ELSE With(LayersFromRefs(refs.v, self.layers, self.archive_objects),
                        LAMBDA primary :
                   With(IF IsRaised(primary) \/ primary.v # <<>> THEN primary
                        ELSE LayersFallback(self.archive_objects.v, primary.v,
                                            self.archive_objects), LAMBDA layers :
                   IF IsRaised(layers) THEN layers
                   ELSE [self EXCEPT
                           !.layers = layers.v,
                           !.layer_count =
                               IF layers.v # <<>> THEN Len(layers.v) ELSE @])))))

(***************************************************************************)
(* Images (PIL): [t |-> "image", width, height, px], px a function from    *)
(* <<x, y>> to the pixel <<r, g, b, a>>                                    *)
(***************************************************************************)
Coords(w, h) == (0 .. w - 1) \X (0 .. h - 1)

\* Image.new("RGBA", (w, h), color)
NewImage(w, h, color) ==
    [t |-> "image", width |-> w, height |-> h, px |-> [p \in Coords(w, h) |-> color]]

\* Image.frombytes("RGBA", (side, side), pixels, "raw", "BGRA"): rows of
\* four-byte pixels, each stored blue, green, red, alpha.
FromBytesBGRA(side, pixels) ==
    [t |-> "image", width |-> side, height |-> side,
     px |-> [p \in Coords(side, side) |->
                LET o == 4 * (p[2] * side + p[1]) IN
                << pixels[o + 3], pixels[o + 2], pixels[o + 1], pixels[o + 4] >>]]

\* img.paste(tile, (ox, oy)): the tile's pixels replace the image's, all four
\* channels, where the tile lies inside the image.
Paste(img, tile, ox, oy) ==
    [img EXCEPT !.px =
        [p \in DOMAIN img.px |->
            IF /\ ox <= p[1] /\ p[1] < ox + tile.width
               /\ oy <= p[2] /\ p[2] < oy + tile.height
            THEN tile.px[<<p[1] - ox, p[2] - oy>>]
            ELSE img.px[p]]]

\* img.crop((0, 0, w, h)) for a box inside the image.
Crop(img, w, h) ==
    [t |-> "image", width |-> w, height |-> h,
     px |-> [p \in Coords(w, h) |-> img.px[p]]]

(***************************************************************************)
(* Tile entry names                                                        *)
(*                                                                         *)
(* A container entry "<dir>/<stem><ext>" is [dir, stem, ext, readable,     *)
(* raw]; stem is the sequence of its atoms: the separators "~" and "_",    *)
(* and the texts between them.                                             *)
(***************************************************************************)
\* name.lower() on the extensions of the model.
LowerExt(ext) ==
    CASE ext = ".CHUNK" -> ".chunk"
      [] ext = ".LZ4" -> ".lz4"
      [] OTHER -> ext

TileExts == {".chunk", ".lz4"}

\* int(text) of one text with no separator in it: [neg, mag, digits], or None
\* when int() raises ValueError.
TextInt(text) ==
    CASE text = "0" -> [neg |-> FALSE, mag |-> 0, digits |-> 1]
      [] text = "1" -> [neg |-> FALSE, mag |-> 1, digits |-> 1]
      [] text = "2" -> [neg |-> FALSE, mag |-> 2, digits |-> 1]
      [] text = "3" -> [neg |-> FALSE, mag |-> 3, digits |-> 1]
      [] text = "00" -> [neg |-> FALSE, mag |-> 0, digits |-> 2]
      [] text = "01" -> [neg |-> FALSE, mag |-> 1, digits |-> 2]
      [] text = "-1" -> [neg |-> TRUE, mag |-> 1, digits |-> 1]
      [] OTHER -> None

RECURSIVE Pow10(_)
Pow10(n) == IF n = 0 THEN 1 ELSE 10 * Pow10(n - 1)

\* int(part) of the atoms of one part: digits, with single underscores allowed
\* between digit groups (int("2_3") is 23); a sign only in front.  None stands
\* for ValueError.
RECURSIVE IntOfAtoms(_, _)
IntOfAtoms(atoms, acc) ==
    IF atoms = <<>> THEN acc
    ELSE IF Len(atoms) < 2 \/ atoms[1] # "_" THEN None
    ELSE LET n == TextInt(atoms[2]) IN
         IF "mag" \notin DOMAIN n \/ n.neg THEN None
         ELSE IntOfAtoms(SubSeq(atoms, 3, Len(atoms)),
                         [acc EXCEPT !.mag = @ * Pow10(n.digits) + n.mag])

ParseInt(part) ==
    IF part = <<>> \/ part[1] \in {"_", "~"} THEN None
    ELSE LET first == TextInt(part[1]) IN
         IF "mag" \notin DOMAIN first THEN None
         ELSE LET n == IntOfAtoms(Tail(part), first) IN
              IF "mag" \notin DOMAIN n THEN None
              ELSE VInt(IF n.neg THEN -n.mag ELSE n.mag)

\* name_part.split(sep) on the atoms.
RECURSIVE Split(_, _)
Split(atoms, sep) ==
    IF \A k \in 1 .. Len(atoms) : atoms[k] # sep THEN << atoms >>
    ELSE LET k == CHOOSE k \in 1 .. Len(atoms) :
                      atoms[k] = sep /\ \A j \in 1 .. k - 1 : atoms[j] # sep
         IN  << SubSeq(atoms, 1, k - 1) >> \o Split(SubSeq(atoms, k + 1, Len(atoms)), sep)

\* The (col, row) of a tile entry, None when the entry is skipped.
TileCoords(stem) ==
    LET has(sep) == \E k \in 1 .. Len(stem) : stem[k] = sep
        parts == IF has("~") THEN Split(stem, "~") ELSE Split(stem, "_")
    IN  IF ~has("~") /\ ~has("_") THEN None
        ELSE IF Len(parts) # 2 THEN None
        ELSE LET col == ParseInt(parts[1])
                 row == ParseInt(parts[2])
             IN  IF col.t = "none" \/ row.t = "none" THEN None
                 ELSE [t |-> "coords", col |-> col.v, row |-> row.v]

(***************************************************************************)
(* The tile decode chain of ProcreateFile.load_layer_image                 *)
(*                                                                         *)
(* A tile payload is described by what each decoder makes of it:           *)
(*   magic  the payload starts with the chained-block tag b"bv41"          *)
(*   bv     the result of the chained-block loop: a byte buffer, or        *)
(*          Raised when anything in the loop raised                        *)
(*   plain  len(raw) equals the expected size; data is then raw itself     *)
(*   lz4, lzo, zlib   the result of each library call: a buffer, or Raised *)
(*          (a decompression error, or the library is not installed)       *)
(* A byte buffer is a bytes value holding a sequence of byte values.        *)
(***************************************************************************)
ExpectedSize(tile_size) == tile_size * tile_size * 4

\* pixels after the try/except of one library call that is made only while
\* pixels is None: an exception leaves pixels None.
TryCodec(pixels, result) ==
    IF pixels.t # "none" THEN pixels
    ELSE IF IsRaised(result) THEN None
    ELSE result

\* Method 0 (bv41): taken whenever the tag matches, whatever pixels was.
AfterChained(raw) ==
    IF raw.magic THEN (IF IsRaised(raw.bv) THEN None ELSE raw.bv)
    ELSE None

\* Method 1 (uncompressed): the payload itself when its length is the expected one.
AfterPlain(pixels, raw) ==
    IF pixels.t = "none" /\ raw.plain THEN raw.data ELSE pixels

\* The decoded pixel bytes of a tile, or None when the tile is skipped.
DecodeTile(raw, expected_size) ==
    LET p0 == AfterChained(raw)
        p1 == AfterPlain(p0, raw)
        p2 == TryCodec(p1, raw.lz4)
        p3 == TryCodec(p2, raw.lzo)
        p4 == TryCodec(p3, raw.zlib)
    IN  IF p4.t = "none" \/ Len(p4.v) # expected_size THEN None ELSE p4

(***************************************************************************)
(* The bv41 branch of load_layer_image: chained lz4 blocks                 *)
(*                                                                         *)
(* Here raw is the entry's content as a sequence of bytes.                 *)
(***************************************************************************)
\* b"bv41" and b"bv4$"
TagBlock == <<98, 118, 52, 49>>

TagEnd == <<98, 118, 52, 36>>

\* raw[a:b], for 0 <= a <= b
Slice(raw, a, b) == SubSeq(raw, a + 1, IF b > Len(raw) THEN Len(raw) ELSE b)

\* struct.unpack_from("<I", raw, off)[0]: four bytes, little-endian, unsigned.
\* A value of 2^31 or more is kept as "huge": it fits no C int.
UnpackLE32(raw, off) ==
    IF Len(raw) - off < 4 THEN Raised("struct.error")
    ELSE IF raw[off + 4] >= 128 THEN [t |-> "huge"]
    ELSE VInt(((raw[off + 1] + 256 * raw[off + 2]) + 65536 * raw[off + 3])
                  + 16777216 * raw[off + 4])

\* lz4.block.decompress(source, uncompressed_size=u_size, dict=prev_dict).  The
\* block format is reduced to the two sequences the streams of the model hold:
\* <<0>> and literals (a literal run), and <<1, n>> (a match of n bytes that ends
\* where the dictionary ends).  The library takes uncompressed_size as a C int
\* and allocates a buffer of that size before it decodes; it raises when the
\* source is no block, when a match starts before the dictionary, and when the
\* output does not fit the buffer.
Lz4Decompress(source, u_size, dict) ==
    IF u_size.t = "huge" THEN Raised("OverflowError")
    ELSE LET output ==
               CASE Len(source) >= 1 /\ source[1] = 0 -> VBytes(Tail(source))
                 [] Len(source) = 2 /\ source[1] = 1 /\ source[2] <= Len(dict) ->
                       VBytes(SubSeq(dict, Len(dict) - source[2] + 1, Len(dict)))
                 [] OTHER -> Raised("LZ4BlockError")
         IN  IF IsRaised(output) THEN output
             ELSE IF Len(output.v) > u_size.v THEN Raised("LZ4BlockError")
             ELSE output

\* b"".join(parts)
RECURSIVE Join(_)
Join(parts) == IF parts = <<>> THEN <<>> ELSE Head(parts) \o Join(Tail(parts))

\* A mutation of ChainedLoop: the dictionary accumulates every earlier output.
RECURSIVE ChainedLoop_RollingDict(_, _, _)
ChainedLoop_RollingDict(raw, off, acc) ==
    IF off >= Len(raw) THEN [acc EXCEPT !.stop = "end of input"]
    ELSE IF Slice(raw, off, off + 4) = TagEnd THEN [acc EXCEPT !.stop = "terminator"]
    ELSE IF Slice(raw, off, off + 4) # TagBlock THEN [acc EXCEPT !.stop = "other tag"]
    ELSE With(UnpackLE32(raw, off + 4), LAMBDA u_size :
         With(UnpackLE32(raw, off + 8), LAMBDA c_size :
         IF IsRaised(u_size) \/ IsRaised(c_size) THEN [acc EXCEPT !.stop = "raised"]
         ELSE With(IF c_size.t = "huge" THEN TRUE
                   ELSE c_size.v >= Len(raw) - (off + 12), LAMBDA to_end :
              With(IF to_end THEN Slice(raw, off + 12, Len(raw))
                   ELSE Slice(raw, off + 12, off + 12 + c_size.v), LAMBDA source :
              With(Lz4Decompress(source, u_size, acc.prev_dict), LAMBDA chunk :
              With([acc EXCEPT
                      !.requested = IF u_size.t = "huge" THEN @
                                    ELSE Append(@, u_size.v),
                      !.dicts = Append(@, acc.prev_dict)], LAMBDA called :
              IF IsRaised(chunk) THEN [called EXCEPT !.stop = "raised"]
              ELSE With([called EXCEPT !.bv_parts = Append(@, chunk.v),
                                       !.prev_dict = @ \o chunk.v], LAMBDA next :
                   IF to_end THEN [next EXCEPT !.stop = "end of input"]
                   ELSE ChainedLoop_RollingDict(raw, off + 12 + c_size.v, next))))))))

\* The while loop from offset off on.  acc carries bv_parts and prev_dict, the
\* buffer sizes asked of the decompressor so far (requested), the dictionaries
\* handed to it (dicts), and in the end what ended the loop (stop).
RECURSIVE ChainedLoop(_, _, _)
ChainedLoop(raw, off, acc) ==
    IF off >= Len(raw) THEN [acc EXCEPT !.stop = "end of input"]
    ELSE IF Slice(raw, off, off + 4) = TagEnd THEN [acc EXCEPT !.stop = "terminator"]
    ELSE IF Slice(raw, off, off + 4) # TagBlock THEN [acc EXCEPT !.stop = "other tag"]
    ELSE With(UnpackLE32(raw, off + 4), LAMBDA u_size :
         With(UnpackLE32(raw, off + 8), LAMBDA c_size :
         IF IsRaised(u_size) \/ IsRaised(c_size) THEN [acc EXCEPT !.stop = "raised"]
         \* raw[off:off + c_size] and off += c_size; a c_size that reaches the
         \* end of raw takes what is left and ends the loop
         ELSE With(IF c_size.t = "huge" THEN TRUE
                   ELSE c_size.v >= Len(raw) - (off + 12), LAMBDA to_end :
              With(IF to_end THEN Slice(raw, off + 12, Len(raw))
                   ELSE Slice(raw, off + 12, off + 12 + c_size.v), LAMBDA source :
              With(Lz4Decompress(source, u_size, acc.prev_dict), LAMBDA chunk :
              With([acc EXCEPT
                      !.requested = IF u_size.t = "huge" THEN @
                                    ELSE Append(@, u_size.v),
                      !.dicts = Append(@, acc.prev_dict)], LAMBDA called :
              IF IsRaised(chunk) THEN [called EXCEPT !.stop = "raised"]
              ELSE With([called EXCEPT !.bv_parts = Append(@, chunk.v),
                                       !.prev_dict = chunk.v], LAMBDA next :
                   IF to_end THEN [next EXCEPT !.stop = "end of input"]
                   ELSE ChainedLoop(raw, off + 12 + c_size.v, next))))))))

\* Method 0 as a whole: pixels after it (None when the branch is not entered or
\* an exception left the loop), with the loop's record.
DecodeChained(raw) ==
    With(IF Slice(raw, 0, 4) # TagBlock
         THEN [bv_parts |-> <<>>, prev_dict |-> <<>>, requested |-> <<>>,
               dicts |-> <<>>, stop |-> "not entered"]
         ELSE ChainedLoop(raw, 0, [bv_parts |-> <<>>, prev_dict |-> <<>>,
                                   requested |-> <<>>, dicts |-> <<>>, stop |-> ""]),
         LAMBDA done :
    [pixels |-> IF done.stop \in {"raised", "not entered"} THEN None
                ELSE VBytes(Join(done.bv_parts)),
     bv_parts |-> done.bv_parts, requested |-> done.requested,
     dicts |-> done.dicts, stop |-> done.stop])

(***************************************************************************)
(* ProcreateFile._get_tile_size and load_layer_image                       *)
(***************************************************************************)
DefaultTileSize == 256

TileSizeKeys == << "tileSize", "SilicaDocumentArchiveTileSize" >>

GetTileSize(self) ==
    With(GetRootObject(self.document_archive, self.archive_objects), LAMBDA root :
    IF ~Truthy(root) THEN DefaultTileSize
    ELSE With(GetInt(root.v, TileSizeKeys, 0), LAMBDA ts :
         IF ts > 0 THEN ts ELSE DefaultTileSize))

\* max(1, (n + tile_size - 1) // tile_size)
TileCount(n, tile_size) ==
    LET c == (n + tile_size - 1) \div tile_size IN IF c < 1 THEN 1 ELSE c

\* chunk_files: the entries under "<uuid>/" with a tile extension, in namelist
\* order.
ChunkFiles(entries, uuid) ==
    SelectSeq(entries, LAMBDA e : e.dir = uuid /\ LowerExt(e.ext) \in TileExts)

\* The pixels of one chunk file, None when the loop moves on without pasting:
\* the name does not parse, the entry cannot be read, or no pixels of the
\* expected size come out of the decode chain.
ChunkPixels(e, expected_size) ==
    IF TileCoords(e.stem).t = "none" THEN None
    ELSE IF ~e.readable THEN None
    ELSE DecodeTile(e.raw, expected_size)

\* A mutation of PasteChunks: the first chunk that yields no pixels ends the loop.
RECURSIVE PasteChunks_StopAtFailure(_, _, _, _)
PasteChunks_StopAtFailure(chunk_files, tile_size, layer_img, pasted) ==
    IF chunk_files = <<>> THEN [layer_img |-> layer_img, pasted |-> pasted]
    ELSE With(Head(chunk_files), LAMBDA e :
         With(ChunkPixels(e, ExpectedSize(tile_size)), LAMBDA pixels :
         With(TileCoords(e.stem), LAMBDA at :
         IF pixels.t = "none" THEN [layer_img |-> layer_img, pasted |-> pasted]
         ELSE PasteChunks_StopAtFailure(Tail(chunk_files), tile_size,
                  Paste(layer_img, FromBytesBGRA(tile_size, pixels.v),
                        at.col * tile_size, at.row * tile_size),
                  Append(pasted, e)))))

\* A mutation of PasteChunks: a tile pasted outside the image does not count as
\* loaded.
RECURSIVE PasteChunks_CountsInsideOnly(_, _, _, _)
PasteChunks_CountsInsideOnly(chunk_files, tile_size, layer_img, pasted) ==
    IF chunk_files = <<>> THEN [layer_img |-> layer_img, pasted |-> pasted]
    ELSE With(Head(chunk_files), LAMBDA e :
         With(ChunkPixels(e, ExpectedSize(tile_size)), LAMBDA pixels :
         With(TileCoords(e.stem), LAMBDA at :
         IF pixels.t = "none"
         THEN PasteChunks_CountsInsideOnly(Tail(chunk_files), tile_size, layer_img,
                                           pasted)
         ELSE PasteChunks_CountsInsideOnly(Tail(chunk_files), tile_size,
                  Paste(layer_img, FromBytesBGRA(tile_size, pixels.v),
                        at.col * tile_size, at.row * tile_size),
                  IF /\ 0 <= at.col /\ at.col * tile_size < layer_img.width
                     /\ 0 <= at.row /\ at.row * tile_size < layer_img.height
                  THEN Append(pasted, e) ELSE pasted))))

\* The loop over chunk_files: layer_img after it and the chunks that were pasted
\* (loaded_any is "pasted is not empty").
RECURSIVE PasteChunks(_, _, _, _)
PasteChunks(chunk_files, tile_size, layer_img, pasted) ==
    IF chunk_files = <<>> THEN [layer_img |-> layer_img, pasted |-> pasted]
    ELSE With(Head(chunk_files), LAMBDA e :
         With(ChunkPixels(e, ExpectedSize(tile_size)), LAMBDA pixels :
         With(TileCoords(e.stem), LAMBDA at :
         IF pixels.t = "none"
         THEN PasteChunks(Tail(chunk_files), tile_size, layer_img, pasted)
         ELSE PasteChunks(Tail(chunk_files), tile_size,
                  Paste(layer_img, FromBytesBGRA(tile_size, pixels.v),
                        at.col * tile_size, at.row * tile_size),
                  Append(pasted, e)))))

\* A mutation of LoadLayerImage: the image of whole tiles is returned as it is.
LoadLayerImage_Uncropped(self, entries, layer_index) ==
    IF ~self.zip \/ layer_index < 0 \/ layer_index >= Len(self.layers) THEN None
    ELSE With(self.layers[layer_index + 1].uuid, LAMBDA uuid :
         IF uuid = "" THEN None
         ELSE With(ChunkFiles(entries, uuid), LAMBDA chunk_files :
              IF chunk_files = <<>> THEN None
              ELSE With(GetTileSize(self), LAMBDA tile_size :
                   LET w == self.canvas_width
                       h == self.canvas_height
                       cols == TileCount(w, tile_size)
                       rows == TileCount(h, tile_size)
                   IN  IF w <= 0 \/ h <= 0 THEN None
                       ELSE With(PasteChunks(chunk_files, tile_size,
                                     NewImage(cols * tile_size, rows * tile_size,
                                              <<0, 0, 0, 0>>),
                                     <<>>), LAMBDA done :
                            IF done.pasted = <<>> THEN None
                            ELSE done.layer_img))))

\* load_layer_image(layer_index) on the object self whose open container holds
\* entries: the layer image, or None.
LoadLayerImage(self, entries, layer_index) ==
    IF ~self.zip \/ layer_index < 0 \/ layer_index >= Len(self.layers) THEN None
    ELSE With(self.layers[layer_index + 1].uuid, LAMBDA uuid :
         IF uuid = "" THEN None
         ELSE With(ChunkFiles(entries, uuid), LAMBDA chunk_files :
              IF chunk_files = <<>> THEN None
              ELSE With(GetTileSize(self), LAMBDA tile_size :
                   LET w == self.canvas_width
                       h == self.canvas_height
                       cols == TileCount(w, tile_size)
                       rows == TileCount(h, tile_size)
                   IN  IF w <= 0 \/ h <= 0 THEN None
                       ELSE With(PasteChunks(chunk_files, tile_size,
                                     NewImage(cols * tile_size, rows * tile_size,
                                              <<0, 0, 0, 0>>),
                                     <<>>), LAMBDA done :
                            IF done.pasted = <<>> THEN None
                            ELSE IF done.layer_img.width # w
                                        \/ done.layer_img.height # h
                                 THEN Crop(done.layer_img, w, h)
                            ELSE done.layer_img))))

(***************************************************************************)
(* ProcreateFile.composite_layers                                          *)
(***************************************************************************)
\* SHIFTFORDIV255 of PIL's AlphaComposite.c
ShiftForDiv255(a) == ((a \div 256) + a) \div 256

\* A mutation of OverPixel: the source pixel replaces the backdrop (a paste).
OverPixel_Replace(dst, src) == src

\* One pixel of Image.alpha_composite(dst, src): src drawn over dst, in PIL's
\* integer arithmetic (7 extra bits of precision).
OverPixel(dst, src) ==
    IF src[4] = 0 THEN dst
    ELSE LET blend == dst[4] * (255 - src[4])
             outa255 == src[4] * 255 + blend
             coef1 == (src[4] * 255 * 255 * 128) \div outa255
             coef2 == 255 * 128 - coef1
             ch(k) == ShiftForDiv255(src[k] * coef1 + dst[k] * coef2 + 128 * 128)
                          \div 128
         IN  << ch(1), ch(2), ch(3), ShiftForDiv255(outa255 + 128) >>

\* A mutation of AlphaComposite: the backdrop is drawn over the source.
AlphaComposite_Under(dst, src) ==
    [dst EXCEPT !.px = [p \in DOMAIN dst.px |-> OverPixel(src.px[p], dst.px[p])]]

\* Image.alpha_composite(dst, src) on two images of one size.
AlphaComposite(dst, src) ==
    [dst EXCEPT !.px = [p \in DOMAIN dst.px |-> OverPixel(dst.px[p], src.px[p])]]

\* A mutation of ScaleAlpha: every band is scaled, not only alpha.
ScaleAlpha_AllChannels(img, opacity) ==
    [img EXCEPT !.px =
        [p \in DOMAIN img.px |->
            [k \in 1 .. 4 |-> TruncDiv(img.px[p][k] * opacity, 4)]]]

\* a.point(lambda x: int(x * opacity)) on the alpha band, the other bands kept;
\* the lookup table is clipped to 0..255.  opacity is in quarters.
ScaleAlpha(img, opacity) ==
    [img EXCEPT !.px =
        [p \in DOMAIN img.px |->
            LET a == TruncDiv(img.px[p][4] * opacity, 4)
            IN  << img.px[p][1], img.px[p][2], img.px[p][3],
                   IF a < 0 THEN 0 ELSE IF a > 255 THEN 255 ELSE a >>]]

\* A mutation of EffectiveVisible: a layer no override names is shown.
EffectiveVisible_ShownByDefault(layer, i, visibility_overrides) ==
    IF Truthy(visibility_overrides) /\ i \in DOMAIN visibility_overrides.v
    THEN visibility_overrides.v[i]
    ELSE TRUE

\* A mutation of EffectiveVisible: an override can show a layer but not hide one
\* (visibility_overrides.get(i) or layer.visible).
EffectiveVisible_OverrideOnlyShows(layer, i, visibility_overrides) ==
    IF Truthy(visibility_overrides) /\ i \in DOMAIN visibility_overrides.v
           /\ visibility_overrides.v[i]
    THEN TRUE
    ELSE layer.visible

\* visibility_overrides is None or a mapping from layer index to bool.
EffectiveVisible(layer, i, visibility_overrides) ==
    IF Truthy(visibility_overrides) /\ i \in DOMAIN visibility_overrides.v
    THEN visibility_overrides.v[i]
    ELSE layer.visible

\* A mutation of CompositeLoop: loaded_any is set before the layer image is
\* tested, so a visible layer without an image counts as blended.
RECURSIVE CompositeLoop_CountsVisible(_, _, _, _, _)
CompositeLoop_CountsVisible(self, entries, visibility_overrides, i, acc) ==
    IF i >= Len(self.layers) THEN acc
    ELSE With(self.layers[i + 1], LAMBDA layer :
         IF ~EffectiveVisible(layer, i, visibility_overrides)
         THEN CompositeLoop_CountsVisible(self, entries, visibility_overrides,
                                          i + 1, acc)
         ELSE With(LoadLayerImage(self, entries, i), LAMBDA layer_img :
              With([acc EXCEPT !.loaded = Append(@, i), !.blended = Append(@, i)],
                   LAMBDA called :
              IF layer_img.t = "none"
              THEN CompositeLoop_CountsVisible(self, entries, visibility_overrides,
                                               i + 1, called)
              ELSE CompositeLoop_CountsVisible(self, entries, visibility_overrides,
                       i + 1,
                       [called EXCEPT
                          !.result =
                              AlphaComposite(@,
                                  IF layer.opacity < 4
                                  THEN ScaleAlpha(layer_img, layer.opacity)
                                  ELSE layer_img)]))))

\* The loop of composite_layers from layer index i on.  acc carries the result
\* image so far, the indices load_layer_image was called with (loaded) and the
\* indices that were blended (blended, loaded_any is "blended is not empty").
RECURSIVE CompositeLoop(_, _, _, _, _)
CompositeLoop(self, entries, visibility_overrides, i, acc) ==
    IF i >= Len(self.layers) THEN acc
    ELSE With(self.layers[i + 1], LAMBDA layer :
         IF ~EffectiveVisible(layer, i, visibility_overrides)
         THEN CompositeLoop(self, entries, visibility_overrides, i + 1, acc)
         ELSE With(LoadLayerImage(self, entries, i), LAMBDA layer_img :
              With([acc EXCEPT !.loaded = Append(@, i)], LAMBDA called :
              IF layer_img.t = "none"
              THEN CompositeLoop(self, entries, visibility_overrides, i + 1, called)
              ELSE CompositeLoop(self, entries, visibility_overrides, i + 1,
                       [called EXCEPT
                          !.blended = Append(@, i),
                          !.result =
                              AlphaComposite(@,
                                  IF layer.opacity < 4
                                  THEN ScaleAlpha(layer_img, layer.opacity)
                                  ELSE layer_img)]))))

\* A mutation of CompositeLayers: the canvas is returned even when no layer was
\* blended.
CompositeLayers_AlwaysImage(self, entries, visibility_overrides) ==
    IF self.layers = <<>> \/ self.canvas_width <= 0 \/ self.canvas_height <= 0
    THEN [result |-> None, loaded |-> <<>>, blended |-> <<>>]
    ELSE CompositeLoop(self, entries, visibility_overrides, 0,
             [result |-> NewImage(self.canvas_width, self.canvas_height,
                                  <<255, 255, 255, 0>>),
              loaded |-> <<>>, blended |-> <<>>])

\* composite_layers(visibility_overrides): [result, loaded, blended]; result is
\* the returned image or None.
CompositeLayers(self, entries, visibility_overrides) ==
    IF self.layers = <<>> \/ self.canvas_width <= 0 \/ self.canvas_height <= 0
    THEN [result |-> None, loaded |-> <<>>, blended |-> <<>>]
    ELSE With(CompositeLoop(self, entries, visibility_overrides, 0,
                  [result |-> NewImage(self.canvas_width, self.canvas_height,
                                       <<255, 255, 255, 0>>),
                   loaded |-> <<>>, blended |-> <<>>]), LAMBDA done :
         IF done.blended = <<>> THEN [done EXCEPT !.result = None] ELSE done)

(***************************************************************************)
(* ProcreateFile.__init__, _load and close                                 *)
(*                                                                         *)
(* A container on disk is [kind, thumbnail, preview, archive, entries]:    *)
(* kind "missing" (no such file), "notzip" or "zip"; thumbnail and preview *)
(* the images the QuickLook entries load as, or None; archive what the two *)
(* metadata entry names hold; entries the tile entries in namelist order.  *)
(***************************************************************************)
\* The fields as __init__ sets them before _load.
NewProcreateFile ==
    [t |-> "ProcreateFile", thumbnail |-> None, composite |-> None, layers |-> <<>>,
     canvas_width |-> 0, canvas_height |-> 0, dpi |-> DefaultDpi, orientation |-> 0,
     color_profile |-> "sRGB", layer_count |-> 0, video_enabled |-> FALSE,
     metadata |-> EmptyDict, zip |-> FALSE, document_archive |-> None,
     archive_objects |-> VList(<<>>)]

\* _load up to and including _load_document_archive, on a container that is a
\* valid archive.
LoadArchive(c) ==
    LET fields == LoadDocumentArchive(c.archive,
                      [document_archive |-> None, archive_objects |-> VList(<<>>)])
    IN  [NewProcreateFile EXCEPT
            !.zip = TRUE,
            !.thumbnail = c.thumbnail,
            !.composite = c.preview,
            !.document_archive = fields.document_archive,
            !.archive_objects = fields.archive_objects]

\* ProcreateFile(path): [self, raised], raised the exception that left
\* __init__ ("" when none did) and self the fields at that point.
Load(c) ==
    IF c.kind = "missing" THEN [self |-> NewProcreateFile, raised |-> "FileNotFoundError"]
    ELSE IF c.kind = "notzip" THEN [self |-> NewProcreateFile, raised |-> "ValueError"]
    ELSE With(LoadArchive(c), LAMBDA s0 :
         With(ParseMetadata(s0), LAMBDA s1 :
         IF IsRaised(s1) THEN [self |-> s0, raised |-> s1.v]
         ELSE With(ParseLayers(s1), LAMBDA s2 :
              IF IsRaised(s2) THEN [self |-> s1, raised |-> s2.v]
              ELSE [self |-> s2, raised |-> ""])))

\* A mutation of CloseSelf: the handle is closed but _zip keeps it.
CloseSelf_KeepsHandle(self) ==
    IF self.zip THEN [self |-> self, released |-> 1]
    ELSE [self |-> self, released |-> 0]

\* close(): the fields afterwards and the number of handles it released.
CloseSelf(self) ==
    IF self.zip THEN [self |-> [self EXCEPT !.zip = FALSE], released |-> 1]
    ELSE [self |-> self, released |-> 0]

\* get_best_image(): self.composite or self.thumbnail
GetBestImage(self) ==
    IF self.composite # None THEN self.composite ELSE self.thumbnail

\* self._zip.namelist() of the container c: the QuickLook images it holds, the
\* metadata entries, then the tile entries.  A container of the model holds an
\* image entry exactly when the image loads.
NameList(c) ==
    (IF c.thumbnail # None THEN << "QuickLook/Thumbnail.png" >> ELSE << >>)
    \o (IF c.preview # None THEN << "QuickLook/Preview.png" >> ELSE << >>)
    \o (IF c.archive[1] # [kind |-> "absent"] THEN << "Document.archive" >> ELSE << >>)
    \o (IF c.archive[2] # [kind |-> "absent"] THEN << "document.archive" >> ELSE << >>)
    \o [k \in 1 .. Len(c.entries) |->
           [dir |-> c.entries[k].dir, stem |-> c.entries[k].stem,
            ext |-> c.entries[k].ext]]

\* A mutation of GetFileList: the names are listed without testing the handle.
GetFileList_IgnoresClose(self, c) == NameList(c)

\* get_file_list(): self._zip.namelist() if self._zip else []
GetFileList(self, c) == IF self.zip THEN NameList(c) ELSE << >>

\* extract_thumbnail_bytes(): the content of the first thumbnail entry the
\* container holds, None without a handle or without such an entry.
ExtractThumbnailBytes(self, c) ==
    IF ~self.zip THEN None
    ELSE IF c.thumbnail # None THEN [t |-> "bytes", of |-> "QuickLook/Thumbnail.png"]
    ELSE None

(***************************************************************************)
(* ProcreateViewer._recomposite                                            *)
(***************************************************************************)
\* _recomposite() of a viewer that holds the document self: the image it shows
\* afterwards and the status line.
Recomposite(self, entries, layer_overrides, can_composite, original_image) ==
    With(IF can_composite
         THEN CompositeLayers(self, entries, layer_overrides).result
         ELSE None, LAMBDA img :
    IF img # None
    THEN [display_image |-> img, status |-> "Preview updated"]
    ELSE [display_image |-> original_image,
          status |-> "Layer compositing failed - showing original"])

(***************************************************************************)
(* Reference resolution over bounded object arrays                         *)
(***************************************************************************)
MaxObjects == 3

\* The values an object slot may hold, one of each kind the resolver can meet.
SlotValues ==
    { VStr("$null"), VInt(7), VDict([root |-> VUid(1)]) }

RECURSIVE SeqsUpTo(_, _)
SeqsUpTo(S, n) ==
    IF n = 0 THEN { <<>> }
    ELSE LET shorter == SeqsUpTo(S, n - 1) IN
         shorter \cup { Append(s, x) : s \in { q \in shorter : Len(q) = n - 1 }, x \in S }

ObjectArrays == SeqsUpTo(SlotValues, MaxObjects)

\* References: raw integers (negative, in range, at and beyond the end), tagged
\* UIDs (plistlib.UID holds a non-negative integer), and values that are none.
UidInputs ==
    { None, VBool(TRUE), VBool(FALSE), VStr("x"), VFloat(4) }
        \cup { VInt(n) : n \in -(MaxObjects + 1) .. (MaxObjects + 1) }
        \cup { VUid(n) : n \in 0 .. (MaxObjects + 1) }

\* The pure-function specifications leave the document variables alone.
NoDocument ==
    /\ file = None
    /\ status = "new"
    /\ pf = None
    /\ closes = 0
    /\ last = None

InitResolve ==
    /\ NoDocument
    /\ fn = ""
    /\ inp \in [objects : ObjectArrays, uid : UidInputs]
    /\ out = None

CallResolveUid ==
    /\ fn = ""
    /\ fn' = "_resolve_uid"
    /\ out' = ResolveUid(inp.uid, inp.objects)
    /\ UNCHANGED <<inp, file, status, pf, closes, last>>

NextResolve == CallResolveUid

SpecResolve == InitResolve /\ [][NextResolve]_vars

\* C6: resolving a raw-integer or tagged reference never raises; an index that is
\* negative, equal to or beyond the length of the object array yields None, and
\* an in-range index yields exactly the value stored in that slot.
ResolveInBoundsOrUnresolved ==
    (fn = "_resolve_uid" /\ inp.uid.t \in {"int", "uid"}) =>
        /\ ~IsRaised(out)
        /\ (inp.uid.v < 0 \/ inp.uid.v >= Len(inp.objects)) => out = None
        /\ (0 <= inp.uid.v /\ inp.uid.v < Len(inp.objects)) =>
               out = inp.objects[inp.uid.v + 1]

\* C6 witness: a tagged reference whose index equals the length of a full object
\* array has been resolved, and came back unresolved.
ResolveWitness ==
    /\ fn = "_resolve_uid"
    /\ inp.uid = VUid(Len(inp.objects))
    /\ Len(inp.objects) = MaxObjects
    /\ out = None

(***************************************************************************)
(* The decode chain over bounded payloads                                  *)
(***************************************************************************)
MaxTileSide == 2

\* A buffer of n bytes, all b.
Fill(n, b) == [i \in 1 .. n |-> b]

\* What one decoder (told apart by the byte it writes) can make of a payload: an
\* exception, or a buffer one byte short of, exactly of, or one byte beyond the
\* expected size.
CodecOutcomes(expected_size, b) ==
    { Raised("error"), VBytes(Fill(expected_size - 1, b)),
      VBytes(Fill(expected_size, b)), VBytes(Fill(expected_size + 1, b)) }

TilePayloads(expected_size) ==
    LET all ==
          { [magic |-> m, bv |-> bv, plain |-> pl,
             data |-> VBytes(Fill(IF pl THEN expected_size ELSE expected_size + 2, 1)),
             lz4 |-> a, lzo |-> b, zlib |-> c] :
              m \in BOOLEAN, bv \in CodecOutcomes(expected_size, 0), pl \in BOOLEAN,
              a \in CodecOutcomes(expected_size, 2),
              b \in CodecOutcomes(expected_size, 3),
              c \in CodecOutcomes(expected_size, 4) }
    \* the chained-block loop runs only on a payload that carries the tag
    IN  { r \in all : r.magic \/ r.bv = Raised("error") }

InitTile ==
    /\ NoDocument
    /\ fn = ""
    /\ \E side \in 1 .. MaxTileSide :
           inp \in [tile_size : {side}, raw : TilePayloads(ExpectedSize(side))]
    /\ out = None

CallDecodeTile ==
    /\ fn = ""
    /\ fn' = "decode_tile"
    /\ out' = DecodeTile(inp.raw, ExpectedSize(inp.tile_size))
    /\ UNCHANGED <<inp, file, status, pf, closes, last>>

NextTile == CallDecodeTile

SpecTile == InitTile /\ [][NextTile]_vars

\* What each step of the chain yields for a payload, in the fixed order
\* chained-block, uncompressed, lz4 block, lzo, zlib; Raised when the step does
\* not apply or raised.
StepOutputs(raw) ==
    << IF raw.magic THEN raw.bv ELSE Raised("no tag"),
       IF raw.plain THEN raw.data ELSE Raised("length"),
       raw.lz4, raw.lzo, raw.zlib >>

\* The steps whose output has exactly the expected length.
GoodSteps(raw, expected_size) ==
    { k \in 1 .. 5 : ~IsRaised(StepOutputs(raw)[k])
                     /\ Len(StepOutputs(raw)[k].v) = expected_size }

Min(S) == CHOOSE x \in S : \A y \in S : x <= y

\* C3: the tile's result is the output of the first step, in the fixed order, that
\* yields exactly tile_side*tile_side*4 bytes (a step of any other length counts
\* as failed and the next is tried), and the tile fails only if no step does.
FirstExactLengthStepWins ==
    fn = "decode_tile" =>
        LET good == GoodSteps(inp.raw, ExpectedSize(inp.tile_size)) IN
        IF good = {} THEN out = None
        ELSE out = StepOutputs(inp.raw)[Min(good)]

(***************************************************************************)
(* The chained-block decoder over bounded streams                          *)
(***************************************************************************)
MaxChainedBlocks == 3

\* n < 2^31 as four little-endian bytes.
LE32(n) ==
    << n % 256, (n \div 256) % 256, (n \div 65536) % 256, n \div 16777216 >>

\* One sub-block: tag, declared uncompressed size, compressed size, payload.
Block(u, payload) ==
    [kind |-> "block", u |-> u, c |-> LE32(Len(payload)), payload |-> payload]

Marker(kind) == [kind |-> kind, u |-> <<>>, c |-> <<>>, payload |-> <<>>]

\* The pieces a stream is made of.
ChainedPieces ==
    { \* two literals; one literal into a larger buffer
      Block(LE32(2), <<0, 10, 20>>),
      Block(LE32(4), <<0, 30>>),
      \* a match: the last two bytes of the dictionary
      Block(LE32(2), <<1, 2>>),
      \* more output than declared; a payload that is no block
      Block(LE32(1), <<0, 10, 20>>),
      Block(LE32(2), <<9>>),
      \* a header that declares 2^31 - 1 bytes, and one that declares 2^31
      Block(<<255, 255, 255, 127>>, <<0, 40>>),
      Block(<<0, 0, 0, 128>>, <<0, 40>>),
      \* a compressed size that reaches beyond the end of the stream
      [Block(LE32(3), <<0, 50>>) EXCEPT !.c = LE32(200)],
      \* the terminator, a foreign tag, a tag with half a header
      Marker("end"), Marker("junk"), Marker("cut") }

PieceBytes(piece) ==
    CASE piece.kind = "block" -> TagBlock \o piece.u \o piece.c \o piece.payload
      [] piece.kind = "end" -> TagEnd
      [] piece.kind = "junk" -> <<98, 118, 52, 50>>
      [] piece.kind = "cut" -> TagBlock \o <<2, 0>>

RECURSIVE StreamBytes(_)
StreamBytes(pieces) ==
    IF pieces = <<>> THEN <<>>
    ELSE PieceBytes(Head(pieces)) \o StreamBytes(Tail(pieces))

InitChained ==
    /\ NoDocument
    /\ fn = ""
    /\ \E pieces \in SeqsUpTo(ChainedPieces, MaxChainedBlocks) :
           inp = [pieces |-> pieces, raw |-> StreamBytes(pieces)]
    /\ out = None

CallDecodeChained ==
    /\ fn = ""
    /\ fn' = "decode_chained"
    /\ out' = DecodeChained(inp.raw)
    /\ UNCHANGED <<inp, file, status, pf, closes, last>>

NextChained == CallDecodeChained

SpecChained == InitChained /\ [][NextChained]_vars

(***************************************************************************)
(* The chained-block loop, one iteration at a time                         *)
(*                                                                         *)
(* out is the loop's state: off, bv_parts and prev_dict as in the code,    *)
(* with the number of times the body was entered (iterations), the number  *)
(* of times it ran to its end (advanced), and what ended the loop (stop,   *)
(* "" while it runs).  An offset at or past the end of raw is recorded as  *)
(* len(raw): the loop condition cannot tell the two apart.                 *)
(***************************************************************************)
\* A mutation of ChainedStep: off is advanced by c_size alone, the twelve bytes
\* of tag and sizes are read without moving it.
ChainedStep_HeaderNotSkipped(raw, st) ==
    IF st.off >= Len(raw) THEN [st EXCEPT !.stop = "end of input"]
    ELSE With([st EXCEPT !.iterations = @ + 1], LAMBDA entered :
         IF Slice(raw, st.off, st.off + 4) = TagEnd
         THEN [entered EXCEPT !.stop = "terminator"]
         ELSE IF Slice(raw, st.off, st.off + 4) # TagBlock
         THEN [entered EXCEPT !.stop = "other tag"]
         ELSE With(UnpackLE32(raw, st.off + 4), LAMBDA u_size :
              With(UnpackLE32(raw, st.off + 8), LAMBDA c_size :
              IF IsRaised(u_size) \/ IsRaised(c_size)
              THEN [entered EXCEPT !.stop = "raised"]
              ELSE With(IF c_size.t = "huge" THEN TRUE
                        ELSE c_size.v >= Len(raw) - (st.off + 12), LAMBDA to_end :
                   With(Lz4Decompress(
                            IF to_end THEN Slice(raw, st.off + 12, Len(raw))
                            ELSE Slice(raw, st.off + 12, st.off + 12 + c_size.v),
                            u_size, st.prev_dict), LAMBDA chunk :
                   IF IsRaised(chunk) THEN [entered EXCEPT !.stop = "raised"]
                   ELSE [entered EXCEPT
                            !.bv_parts = Append(@, chunk.v),
                            !.prev_dict = chunk.v,
                            !.advanced = @ + 1,
                            !.off = IF to_end THEN Len(raw)
                                    ELSE st.off + c_size.v])))))

\* The loop test and one run of the loop body from the state st.
ChainedStep(raw, st) ==
    IF st.off >= Len(raw) THEN [st EXCEPT !.stop = "end of input"]
    ELSE With([st EXCEPT !.iterations = @ + 1], LAMBDA entered :
         IF Slice(raw, st.off, st.off + 4) = TagEnd
         THEN [entered EXCEPT !.stop = "terminator"]
         ELSE IF Slice(raw, st.off, st.off + 4) # TagBlock
         THEN [entered EXCEPT !.stop = "other tag"]
         ELSE With(UnpackLE32(raw, st.off + 4), LAMBDA u_size :
              With(UnpackLE32(raw, st.off + 8), LAMBDA c_size :
              IF IsRaised(u_size) \/ IsRaised(c_size)
              THEN [entered EXCEPT !.stop = "raised"]
              ELSE With(IF c_size.t = "huge" THEN TRUE
                        ELSE c_size.v >= Len(raw) - (st.off + 12), LAMBDA to_end :
                   With(Lz4Decompress(
                            IF to_end THEN Slice(raw, st.off + 12, Len(raw))
                            ELSE Slice(raw, st.off + 12, st.off + 12 + c_size.v),
                            u_size, st.prev_dict), LAMBDA chunk :
                   IF IsRaised(chunk) THEN [entered EXCEPT !.stop = "raised"]
                   ELSE [entered EXCEPT
                            !.bv_parts = Append(@, chunk.v),
                            !.prev_dict = chunk.v,
                            !.advanced = @ + 1,
                            !.off = IF to_end THEN Len(raw)
                                    ELSE st.off + 12 + c_size.v])))))

InitChainedLoop == InitChained

\* if raw[:4] == b"bv41": the branch is entered, or passed by.
EnterChained ==
    /\ fn = ""
    /\ IF Slice(inp.raw, 0, 4) = TagBlock
       THEN /\ fn' = "bv41 loop"
            /\ out' = [off |-> 0, bv_parts |-> << >>, prev_dict |-> << >>,
                       iterations |-> 0, advanced |-> 0, stop |-> ""]
       ELSE /\ fn' = "done"
            /\ out' = [off |-> 0, bv_parts |-> << >>, prev_dict |-> << >>,
                       iterations |-> 0, advanced |-> 0, stop |-> "not entered"]
    /\ UNCHANGED <<inp, file, status, pf, closes, last>>

\* One test of the while condition and, when it holds, one run of the body.
\* The body is entered at most MaxChainedBlocks + 1 times on the streams of
\* the model; the guard keeps a loop that would not end from running on.
ChainedIteration ==
    /\ fn = "bv41 loop"
    /\ out.iterations <= MaxChainedBlocks + 1
    /\ out' = ChainedStep(inp.raw, out)
    /\ fn' = IF out'.stop = "" THEN "bv41 loop" ELSE "done"
    /\ UNCHANGED <<inp, file, status, pf, closes, last>>

NextChainedLoop == EnterChained \/ ChainedIteration

\* The interpreter keeps running the loop: a step that can be taken is taken.
SpecChainedLoop ==
    InitChainedLoop /\ [][NextChainedLoop]_vars /\ WF_vars(NextChainedLoop)

(***************************************************************************)
(* Documents: containers as the encoder writes them, and damaged ones      *)
(***************************************************************************)
MaxLayers == 2

\* The tile sides of the documents ("tileSize" in the metadata).
DocTileSides == {2}

\* Tile pixels, stored blue, green, red, alpha.
PatternPixel(pattern, x, y) ==
    CASE pattern = "red" -> <<0, 0, 255, 255>>
      [] pattern = "blue" -> <<255, 0, 0, 255>>
      [] pattern = "mixed" ->
            << <<0, 255, 0, 255>>, <<0, 255, 0, 128>>,
               <<30, 20, 10, 1>>, <<30, 20, 10, 0>> >>[((x + 2 * y) % 4) + 1]

\* The pixel bytes of a side x side tile, row by row.
PixelBytes(side, pattern) ==
    VBytes([i \in 1 .. ExpectedSize(side) |->
               LET k == (i - 1) \div 4
               IN  PatternPixel(pattern, k % side, k \div side)[((i - 1) % 4) + 1]])

NoCodec == Raised("error")

\* A payload no decoder accepts.
BadPayload ==
    [magic |-> FALSE, bv |-> NoCodec, plain |-> FALSE, data |-> VBytes(<<7, 7, 7>>),
     lz4 |-> NoCodec, lzo |-> NoCodec, zlib |-> NoCodec]

\* Uncompressed pixels.
PlainPayload(side, pattern) ==
    [BadPayload EXCEPT !.plain = TRUE, !.data = PixelBytes(side, pattern)]

\* An lz4 block of the pixels.
Lz4Payload(side, pattern) == [BadPayload EXCEPT !.lz4 = PixelBytes(side, pattern)]

\* Chained bv41 blocks of the pixels.
ChainedPayload(side, pattern) ==
    [BadPayload EXCEPT !.magic = TRUE, !.bv = PixelBytes(side, pattern)]

TileEntry(dir, stem, ext, readable, raw) ==
    [dir |-> dir, stem |-> stem, ext |-> ext, readable |-> readable, raw |-> raw]

\* The tile entries a container may hold for the layer identifier "A" ...
TilesOfA(side) ==
    { \* an unreadable entry and an unparsable name, then a tile that decodes, then
      \* one that does not
      << TileEntry("A", <<"0", "_", "0">>, ".chunk", FALSE, PlainPayload(side, "red")),
         TileEntry("A", <<"x", "_", "0">>, ".chunk", TRUE, PlainPayload(side, "red")),
         TileEntry("A", <<"0", "_", "0">>, ".chunk", TRUE, PlainPayload(side, "mixed")),
         TileEntry("A", <<"1", "_", "0">>, ".chunk", TRUE, BadPayload) >>,
      \* no tile decodes
      << TileEntry("A", <<"0", "_", "0">>, ".chunk", TRUE, BadPayload) >>,
      \* a payload no codec matches, then a tile of the second column that decodes
      << TileEntry("A", <<"0", "~", "1">>, ".lz4", TRUE, BadPayload),
         TileEntry("A", <<"1", "~", "0">>, ".LZ4", TRUE, ChainedPayload(side, "mixed")) >> }

\* ... and for the layer identifier "B".  No container holds tiles for "C".
TilesOfB(side) ==
    { << >>,
      << TileEntry("B", <<"0", "_", "0">>, ".lz4", TRUE, Lz4Payload(side, "blue")),
         TileEntry("B", <<"1", "_", "0">>, ".chunk", TRUE, PlainPayload(side, "blue")) >> }

\* The layers a document may hold: identifier, opacity (in quarters), hidden flag.
LayerKinds ==
    { [uuid |-> "A", opacity |-> 4, hidden |-> FALSE],
      [uuid |-> "A", opacity |-> 2, hidden |-> FALSE],
      [uuid |-> "B", opacity |-> 6, hidden |-> TRUE],
      [uuid |-> "C", opacity |-> 4, hidden |-> FALSE] }

\* The layer lists of the documents: up to MaxLayers layers, no identifier twice.
LayerStacks ==
    { kinds \in SeqsUpTo(LayerKinds, MaxLayers) :
        \A j, k \in 1 .. Len(kinds) : j # k => kinds[j].uuid # kinds[k].uuid }

\* The mapping the encoder writes for one layer.
LayerDict(kind) ==
    LET base == ("contentsOpacity" :> VFloat(kind.opacity))
                    @@ ("hidden" :> VBool(kind.hidden))
    IN  VDict(IF kind.uuid = "" THEN base ELSE ("UUID" :> VStr(kind.uuid)) @@ base)

\* The keyed archive of a document: "$null", the root object, the layer array,
\* then the layers.
Archive(w, h, side, kinds) ==
    LET root == VDict(("SilicaDocumentArchiveDimensionWidth" :> VInt(w))
                   @@ ("SilicaDocumentArchiveDimensionHeight" :> VInt(h))
                   @@ ("tileSize" :> VInt(side))
                   @@ ("SilicaDocumentArchiveLayers" :> VUid(2)))
        array == VDict("NS.objects" :> VList([k \in 1 .. Len(kinds) |-> VUid(k + 2)]))
    IN  VDict(("$top" :> VDict("root" :> VUid(1)))
           @@ ("$objects" :>
                  VList(<< VStr("$null"), root, array >>
                            \o [k \in 1 .. Len(kinds) |-> LayerDict(kinds[k])])))

Absent == [kind |-> "absent"]
Garbage == [kind |-> "garbage"]
Plist(value) == [kind |-> "plist", value |-> value]

\* The canvas sizes of a document of the given tile side: one tile, and a second
\* column that the canvas cuts.
DocSizes(side) == { <<side, side>>, <<side + 1, side>> }

LayeredContainersOf(side) ==
    { [kind |-> "zip", thumbnail |-> None, preview |-> None,
       archive |-> << Plist(Archive(size[1], size[2], side, kinds)), Absent >>,
       entries |-> a \o b] :
        size \in DocSizes(side), kinds \in LayerStacks,
        a \in TilesOfA(side), b \in TilesOfB(side) }

LayeredContainers == UNION { LayeredContainersOf(side) : side \in DocTileSides }

\* A QuickLook image, 4 x 3 pixels.
Thumbnail == [t |-> "image", width |-> 4, height |-> 3]

\* Property lists that decode but lack the structure of a keyed archive.
\* The top-level value is a list.
TopLevelList == VList(<< VInt(1) >>)

\* "$top" is a number.
TopNotMapping ==
    VDict(("$top" :> VInt(5))
       @@ ("$objects" :> VList(<< VStr("$null"), VDict("width" :> VInt(2)) >>)))

\* "$objects" is a number.
ObjectsNotSequence ==
    VDict(("$top" :> VDict("root" :> VUid(1))) @@ ("$objects" :> VInt(3)))

\* The layer array's "NS.objects" is a number.
LayerListNotSequence ==
    VDict(("$top" :> VDict("root" :> VUid(1)))
       @@ ("$objects" :>
              VList(<< VStr("$null"),
                       VDict(("SilicaDocumentArchiveDimensionWidth" :> VInt(2))
                          @@ ("SilicaDocumentArchiveDimensionHeight" :> VInt(2))
                          @@ ("SilicaDocumentArchiveLayers" :> VUid(2))),
                       VDict("NS.objects" :> VInt(5)) >>)))

\* A layer whose fields are all of an unexpected type.
LayerFieldsMistyped ==
    VDict(("$top" :> VDict("root" :> VUid(1)))
       @@ ("$objects" :>
              VList(<< VStr("$null"),
                       VDict(("SilicaDocumentArchiveDimensionWidth" :> VInt(2))
                          @@ ("SilicaDocumentArchiveDimensionHeight" :> VInt(2))
                          @@ ("SilicaDocumentArchiveLayers" :> VUid(2))),
                       VDict("NS.objects" :> VList(<< VUid(3) >>)),
                       VDict(("name" :> VList(<<>>))
                          @@ ("UUID" :> VFloat(6))
                          @@ ("contentsOpacity" :> VStr("half"))
                          @@ ("hidden" :> VStr("no"))
                          @@ ("extendedBlend" :> VStr("multiply"))) >>)))

MalformedPlists ==
    { TopLevelList, TopNotMapping, ObjectsNotSequence, LayerListNotSequence,
      LayerFieldsMistyped }

\* What the two metadata entry names may hold in a damaged container.
DamagedArchives ==
    { << Plist(m), Absent >> : m \in MalformedPlists } \cup
    { << Absent, Absent >>, << Garbage, Absent >>, << Absent, Garbage >>,
      << Garbage, Garbage >>,
      \* a sound archive under the second name
      << Garbage, Plist(Archive(2, 2, 2, << [uuid |-> "A", opacity |-> 4,
                                             hidden |-> FALSE] >>)) >>,
      \* a sound archive that gives no canvas size
      << Plist(Archive(0, 0, 2, << [uuid |-> "A", opacity |-> 4,
                                    hidden |-> FALSE] >>)), Absent >>,
      \* a canvas narrower than a tile, its second row of tiles cut
      << Plist(Archive(1, 3, 2, << [uuid |-> "A", opacity |-> 4,
                                    hidden |-> FALSE] >>)), Absent >> }

DamagedContainers ==
    { [kind |-> "zip", thumbnail |-> th, preview |-> None, archive |-> ar,
       entries |-> a] :
        th \in {None, Thumbnail}, ar \in DamagedArchives, a \in TilesOfA(2) }
    \cup { [kind |-> k, thumbnail |-> None, preview |-> None,
            archive |-> << Absent, Absent >>, entries |-> << >>] :
             k \in {"missing", "notzip"} }

Containers == LayeredContainers \cup DamagedContainers

\* The override maps a caller may pass for a document of n layers: none, or any
\* map from some of the layer indices to a visibility.
OverrideMaps(n) ==
    { None } \cup
    { VDict(m) : m \in UNION { [D -> BOOLEAN] : D \in SUBSET (0 .. n - 1) } }

(***************************************************************************)
(* The root object over bounded metadata entries                           *)
(***************************************************************************)
\* A mapping with the key when there is a value for it.
Keyed(key, value) == IF value.t = "none" THEN EmptyDict ELSE (key :> value)

\* What "$top" may hold: nothing, a mapping with or without "root", a number.
TopValues ==
    { None, VInt(5), VDict(EmptyDict) } \cup { VDict("root" :> u) : u \in UidInputs }

\* What "$objects" may hold: nothing, an array, a number.
ObjectsValues == { None, VInt(3) } \cup { VList(objects) : objects \in ObjectArrays }

\* What the metadata entry may hold.
MetadataEntries ==
    { Absent, Garbage, Plist(TopLevelList), Plist(VList(<<>>)) }
        \cup { Plist(VDict(Keyed("$top", top) @@ Keyed("$objects", objects))) :
                 top \in TopValues, objects \in ObjectsValues }

InitRoot ==
    /\ NoDocument
    /\ fn = ""
    /\ inp \in MetadataEntries
    /\ out = None

\* _load_document_archive() on a container that holds the entry, then
\* _get_root_object().
CallGetRootObject ==
    /\ fn = ""
    /\ fn' = "_get_root_object"
    /\ out' = LET fields == LoadDocumentArchive(<< inp, Absent >>,
                                [document_archive |-> None,
                                 archive_objects |-> VList(<<>>)])
              IN  GetRootObject(fields.document_archive, fields.archive_objects)
    /\ UNCHANGED <<inp, file, status, pf, closes, last>>

NextRoot == CallGetRootObject

SpecRoot == InitRoot /\ [][NextRoot]_vars

(***************************************************************************)
(* Opening documents over bounded metadata values                          *)
(***************************************************************************)
\* What the metadata may hold for a size or for the DPI: nothing, integers and
\* reals (negative, zero, positive), four-byte blobs (big-endian -2 and 256), a
\* blob too short to unpack, a string.
NumberValues ==
    { None, VInt(-3), VInt(0), VInt(2), VFloat(-6), VFloat(10),
      VBytes(<<255, 255, 255, 254>>), VBytes(<<0, 0, 1, 0>>), VBytes(<<1, 2>>),
      VStr("big") }

\* A container whose archive holds a root object with the three values and no
\* layers.
MetadataContainer(thumbnail, width, height, dpi) ==
    LET root == VDict(Keyed("SilicaDocumentArchiveDimensionWidth", width)
                   @@ Keyed("height", height)
                   @@ Keyed("SilicaDocumentArchiveDPI", dpi)
                   @@ ("orientation" :> VInt(1)))
        archive == VDict(("$top" :> VDict("root" :> VUid(1)))
                      @@ ("$objects" :> VList(<< VStr("$null"), root >>)))
    IN  [kind |-> "zip", thumbnail |-> thumbnail, preview |-> None,
         archive |-> << Plist(archive), Absent >>, entries |-> << >>]

InitMetadata ==
    /\ NoDocument
    /\ fn = ""
    /\ \E thumbnail \in {None, Thumbnail}, width, height, dpi \in NumberValues :
           inp = [width |-> width, height |-> height, dpi |-> dpi,
                  container |-> MetadataContainer(thumbnail, width, height, dpi)]
    /\ out = None

\* ProcreateFile(path)
CallOpen ==
    /\ fn = ""
    /\ fn' = "open"
    /\ out' = Load(inp.container)
    /\ UNCHANGED <<inp, file, status, pf, closes, last>>

NextOpen == CallOpen

SpecMetadata == InitMetadata /\ [][NextOpen]_vars

(***************************************************************************)
(* Opening documents over bounded values of the canvas size aliases        *)
(***************************************************************************)
\* What the metadata may hold under one alias: nothing, zero, an integer, a
\* real (2.5), a four-byte blob (big-endian 256), a blob of five bytes (its
\* first four are big-endian 3), a blob too short to unpack, a string.
AliasValues ==
    { None, VInt(0), VInt(2), VFloat(10), VBytes(<<0, 0, 1, 0>>),
      VBytes(<<0, 0, 0, 3, 9>>), VBytes(<<1, 2>>), VStr("big") }

\* A container whose root object holds widths under the second and the last
\* width alias and heights under the first and the last height alias.
AliasContainer(thumbnail, widths, heights) ==
    LET root == VDict(Keyed("width", widths[1])
                   @@ Keyed("tileSize", widths[2])
                   @@ Keyed("SilicaDocumentArchiveDimensionHeight", heights[1])
                   @@ Keyed("canvasHeight", heights[2])
                   @@ ("orientation" :> VInt(1)))
        archive == VDict(("$top" :> VDict("root" :> VUid(1)))
                      @@ ("$objects" :> VList(<< VStr("$null"), root >>)))
    IN  [kind |-> "zip", thumbnail |-> thumbnail, preview |-> None,
         archive |-> << Plist(archive), Absent >>, entries |-> << >>]

InitAliases ==
    /\ NoDocument
    /\ fn = ""
    /\ \E thumbnail \in {None, Thumbnail},
          widths \in AliasValues \X AliasValues,
          heights \in AliasValues \X AliasValues :
           inp = [widths |-> widths, heights |-> heights,
                  container |-> AliasContainer(thumbnail, widths, heights)]
    /\ out = None

SpecAliases == InitAliases /\ [][NextOpen]_vars

(***************************************************************************)
(* Opening documents over bounded layer mappings and object graphs         *)
(*                                                                         *)
(* The object array is "$null", the root object, the layer array, a layer  *)
(* mapping, the layer class, two strings, a second layer mapping, the      *)
(* document class and the second layer's name.                             *)
(***************************************************************************)
\* What a layer mapping may hold for each field: nothing, a sound value, values
\* out of range or of an unexpected type.
LayerNameValues == { None, VUid(5), VStr("Sketch"), VList(<<>>) }

LayerUuidValues == { None, VUid(6), VFloat(6) }

LayerOpacityValues ==
    { None, VFloat(2), VFloat(6), VFloat(-2), VBool(TRUE), VStr("half") }

LayerHiddenValues == { None, VBool(TRUE), VStr("no") }

LayerBlendValues == { None, VInt(3), VStr("multiply") }

\* What the layer array may list: no layer key at all, nothing, the first layer
\* mapping, the second and the first, an object that is no mapping.
LayerRefValues ==
    { None, VList(<<>>), VList(<< VUid(3) >>), VList(<< VUid(7), VUid(3) >>),
      VList(<< VUid(0) >>) }

ClassNameValues == { VStr("SilicaLayer"), VStr("SilicaDocument"), VInt(4) }

\* What stands at index 1: the root object, an empty mapping, a string.
RootKinds == { "root", "empty", "none" }

\* The layer mapping of the fields f: name, uuid, opacity, hidden, blend, and
\* whether it names its class.
LayerMapping(f) ==
    VDict(Keyed("name", f.name) @@ Keyed("UUID", f.uuid)
       @@ Keyed("contentsOpacity", f.opacity) @@ Keyed("hidden", f.hidden)
       @@ Keyed("extendedBlend", f.blend)
       @@ Keyed("$class", IF f.classed THEN VUid(4) ELSE None))

GraphObjects(f, refs, classname, rooted) ==
    << VStr("$null"),
       CASE rooted = "root" ->
                VDict(("SilicaDocumentArchiveDimensionWidth" :> VInt(2))
                   @@ ("SilicaDocumentArchiveDimensionHeight" :> VInt(2))
                   @@ ("tileSize" :> VInt(2))
                   @@ ("$class" :> VUid(8))
                   @@ Keyed("SilicaDocumentArchiveLayers",
                            IF refs.t = "none" THEN None ELSE VUid(2)))
         [] rooted = "empty" -> VDict(EmptyDict)
         [] OTHER -> VStr("gone"),
       VDict(Keyed("NS.objects", refs)),
       LayerMapping(f),
       VDict("$classname" :> classname),
       VStr("Sky"),
       VStr("A"),
       VDict(("$class" :> VUid(4)) @@ ("name" :> VUid(9)) @@ ("UUID" :> VUid(6))),
       VDict("$classname" :> VStr("SilicaDocument")),
       VStr("Second") >>

GraphContainer(objects) ==
    [kind |-> "zip", thumbnail |-> None, preview |-> None,
     archive |-> << Plist(VDict(("$top" :> VDict("root" :> VUid(1)))
                             @@ ("$objects" :> VList(objects)))),
                    Absent >>,
     entries |-> << TileEntry("A", <<"0", "_", "0">>, ".chunk", TRUE,
                              PlainPayload(2, "red")) >>]

LayerFields ==
    [name : LayerNameValues, uuid : LayerUuidValues, opacity : LayerOpacityValues,
     hidden : LayerHiddenValues, blend : LayerBlendValues, classed : {TRUE}]

\* Every layer mapping, listed in the layer array or only found by the scan; and
\* every shape of the graph around two layer mappings.
GraphInputs ==
    { [f |-> f, refs |-> refs, classname |-> VStr("SilicaLayer"), rooted |-> "root"] :
        f \in LayerFields, refs \in { VList(<<>>), VList(<< VUid(3) >>) } }
    \cup
    { [f |-> f, refs |-> refs, classname |-> classname, rooted |-> rooted] :
        f \in [name : {VUid(5)}, uuid : {VUid(6)}, opacity : {None, VFloat(2)},
               hidden : {None}, blend : {None}, classed : BOOLEAN],
        refs \in LayerRefValues, classname \in ClassNameValues,
        rooted \in RootKinds }

InitLayers ==
    /\ NoDocument
    /\ fn = ""
    /\ \E g \in GraphInputs :
           LET objects == GraphObjects(g.f, g.refs, g.classname, g.rooted)
           IN  inp = [f |-> g.f, refs |-> g.refs, classname |-> g.classname,
                      rooted |-> g.rooted, objects |-> objects,
                      container |-> GraphContainer(objects)]
    /\ out = None

SpecLayers == InitLayers /\ [][NextOpen]_vars

(***************************************************************************)
(* Tile assembly over bounded sets of tile entries                         *)
(***************************************************************************)
MaxTileEntries == 3

\* Tile entries of the layer "A" with either separator, either extension and
\* zero-padded numbers; some of them name the same grid cell, some a cell
\* outside the grid.
TilePool ==
    { TileEntry("A", <<"0", "_", "0">>, ".chunk", TRUE, PlainPayload(2, "red")),
      TileEntry("A", <<"0", "~", "0">>, ".lz4", TRUE, Lz4Payload(2, "blue")),
      TileEntry("A", <<"00", "_", "0">>, ".chunk", TRUE, ChainedPayload(2, "mixed")),
      TileEntry("A", <<"1", "_", "0">>, ".LZ4", TRUE, PlainPayload(2, "blue")),
      TileEntry("A", <<"01", "~", "00">>, ".chunk", TRUE, PlainPayload(2, "mixed")),
      TileEntry("A", <<"1", "~", "0">>, ".chunk", TRUE, BadPayload),
      \* a column and a row outside the grid of the canvas
      TileEntry("A", <<"3", "_", "0">>, ".chunk", TRUE, PlainPayload(2, "red")),
      TileEntry("A", <<"0", "~", "-1">>, ".lz4", TRUE, Lz4Payload(2, "blue")) }

\* The name lists of a container that holds up to MaxTileEntries of them, in
\* any order of enumeration.
TileLists ==
    { s \in SeqsUpTo(TilePool, MaxTileEntries) :
        \A j, k \in 1 .. Len(s) : j # k => s[j] # s[k] }

\* A document of one layer "A" on a canvas of two tiles, the second one cut.
TileContainer(entries) ==
    [kind |-> "zip", thumbnail |-> None, preview |-> None,
     archive |-> << Plist(Archive(3, 2, 2, << [uuid |-> "A", opacity |-> 4,
                                             hidden |-> FALSE] >>)), Absent >>,
     entries |-> entries]

InitAssemble ==
    /\ inp \in { TileContainer(entries) : entries \in TileLists }
    /\ fn = ""
    /\ out = None
    /\ NoDocument

\* ProcreateFile(path).load_layer_image(0)
CallAssemble ==
    /\ fn = ""
    /\ fn' = "load_layer_image"
    /\ out' = LoadLayerImage(Load(inp).self, inp.entries, 0)
    /\ UNCHANGED <<file, status, pf, closes, last, inp>>

\* ProcreateFile(path).composite_layers()
CallAssembleComposite ==
    /\ fn = ""
    /\ fn' = "composite_layers"
    /\ out' = CompositeLayers(Load(inp).self, inp.entries, None).result
    /\ UNCHANGED <<file, status, pf, closes, last, inp>>

NextAssemble == CallAssemble \/ CallAssembleComposite

SpecAssemble == InitAssemble /\ [][NextAssemble]_vars

(***************************************************************************)
(* The viewer's layer visibility handlers (ProcreateViewer)                *)
(*                                                                         *)
(* pf is self.procreate (None before the first file), file the container   *)
(* it was opened from, status the text of the status bar.  inp holds the   *)
(* viewer's fields: layer_overrides, can_composite, display_image,         *)
(* original_image, and rows, the number of rows in the layers tree.  out   *)
(* counts the files the viewer was asked to open.  last is the handler     *)
(* that ran last, with the override map it found (before) and the two      *)
(* handlers that ran before it (previous).                                 *)
(***************************************************************************)
MaxOpens == 2

\* The files a user may open: a document of two layers with tile data (the
\* second layer hidden), one whose only layer has no decodable tile, one with a
\* thumbnail and one layer, a file that is no archive, and an archive whose
\* metadata lacks the structure of a keyed archive.
ViewerFiles ==
    { [kind |-> "zip", thumbnail |-> None, preview |-> None,
       archive |-> << Plist(Archive(2, 2, 2,
                              << [uuid |-> "A", opacity |-> 4, hidden |-> FALSE],
                                 [uuid |-> "B", opacity |-> 6, hidden |-> TRUE] >>)),
                      Absent >>,
       entries |-> << TileEntry("A", <<"0", "_", "0">>, ".chunk", TRUE,
                                PlainPayload(2, "mixed")),
                      TileEntry("B", <<"0", "_", "0">>, ".lz4", TRUE,
                                Lz4Payload(2, "blue")) >>],
      [kind |-> "zip", thumbnail |-> Thumbnail, preview |-> None,
       archive |-> << Plist(Archive(2, 2, 2,
                              << [uuid |-> "A", opacity |-> 4, hidden |-> FALSE] >>)),
                      Absent >>,
       entries |-> << TileEntry("A", <<"0", "_", "0">>, ".chunk", TRUE, BadPayload) >>],
      [kind |-> "zip", thumbnail |-> Thumbnail, preview |-> None,
       archive |-> << Plist(Archive(2, 2, 2,
                              << [uuid |-> "A", opacity |-> 2, hidden |-> FALSE] >>)),
                      Absent >>,
       entries |-> << TileEntry("A", <<"0", "_", "0">>, ".chunk", TRUE,
                                PlainPayload(2, "red")) >>],
      [kind |-> "notzip", thumbnail |-> None, preview |-> None,
       archive |-> << Absent, Absent >>, entries |-> << >>],
      [kind |-> "zip", thumbnail |-> Thumbnail, preview |-> None,
       archive |-> << Plist(TopLevelList), Absent >>, entries |-> << >>] }

\* The fields as ProcreateViewer.__init__ sets them.
NewViewer ==
    [layer_overrides |-> VDict(<< >>), can_composite |-> FALSE,
     display_image |-> None, original_image |-> None, rows |-> 0]

\* _probe_compositing(): some layer of the document yields an image.
ProbeCompositing(self, entries) ==
    \E i \in 0 .. Len(self.layers) - 1 : LoadLayerImage(self, entries, i) # None

\* The rows _update_layers_panel() leaves in the tree: one per layer, or the
\* single row "(no layer data)".
RowsFor(self) == IF self.layers = << >> THEN 1 ELSE Len(self.layers)

\* _layer_overrides.get(idx, layers[idx].visible)
CurrentVisibility(layer_overrides, layers, idx) ==
    IF idx \in DOMAIN layer_overrides.v THEN layer_overrides.v[idx]
    ELSE layers[idx + 1].visible

\* A mutation of ToggleOverride: the new value is taken from the layer's native
\* flag, whatever the map already holds.
ToggleOverride_FromNative(layer_overrides, layers, idx) ==
    VDict((idx :> ~layers[idx + 1].visible) @@ layer_overrides.v)

\* _layer_overrides[idx] = not current
ToggleOverride(layer_overrides, layers, idx) ==
    VDict((idx :> ~CurrentVisibility(layer_overrides, layers, idx))
              @@ layer_overrides.v)

\* The viewer after _update_layers_panel() and _recomposite().
Refreshed(viewer, self, entries, layer_overrides) ==
    With(Recomposite(self, entries, layer_overrides, viewer.can_composite,
                     viewer.original_image), LAMBDA shown :
    [viewer |-> [viewer EXCEPT !.layer_overrides = layer_overrides,
                               !.rows = RowsFor(self),
                               !.display_image = shown.display_image],
     status |-> shown.status])

\* A handler without the handlers before it.
Bare(noted) ==
    [op |-> noted.op, idx |-> noted.idx, before |-> noted.before,
     can_composite |-> noted.can_composite]

\* What a handler notes in last: itself, its argument, the map and the
\* _can_composite it found, and the two handlers before it.
Noted(op, idx) ==
    [op |-> op, idx |-> idx, before |-> inp.layer_overrides,
     can_composite |-> inp.can_composite,
     previous |->
         IF last = None THEN None
         ELSE [op |-> last.op, idx |-> last.idx, before |-> last.before,
               can_composite |-> last.can_composite,
               previous |-> IF last.previous = None THEN None
                            ELSE Bare(last.previous)]]

InitViewer ==
    /\ NoDocument
    /\ fn = ""
    /\ inp = NewViewer
    /\ out = 0

\* _open_file(filepath)
OpenFile ==
    /\ out < MaxOpens
    /\ \E c \in ViewerFiles :
           With(IF pf = None THEN None ELSE CloseSelf(pf).self, LAMBDA closed :
           With(Load(c), LAMBDA r :
           IF r.raised # ""
           THEN \* ProcreateFile(filepath) raised: the except clause reports it
                /\ pf' = closed
                /\ closes' = closes + (IF pf = None THEN 0 ELSE CloseSelf(pf).released)
                /\ status' = "Error opening file"
                /\ UNCHANGED <<file, inp>>
           ELSE /\ pf' = r.self
                /\ file' = c
                /\ closes' = closes + (IF pf = None THEN 0 ELSE CloseSelf(pf).released)
                /\ LET image == GetBestImage(r.self)
                       opened == [NewViewer EXCEPT
                                    !.display_image = image,
                                    !.original_image = image,
                                    !.can_composite = ProbeCompositing(r.self, c.entries)]
                   IN  IF image = None
                       THEN /\ inp' = [opened EXCEPT !.rows = inp.rows]
                            /\ status' = "No preview available"
                       ELSE /\ inp' = [opened EXCEPT !.rows = RowsFor(r.self)]
                            /\ status' = "opened"))
    /\ last' = Noted("open", -1)
    /\ out' = out + 1
    /\ UNCHANGED fn

\* _on_layer_toggle(event): a double click on row idx of the layers tree
OnLayerToggle ==
    /\ \E idx \in 0 .. inp.rows - 1 :
           /\ last' = Noted("toggle", idx)
           /\ IF pf = None \/ idx >= Len(pf.layers)
              THEN UNCHANGED <<inp, status>>
              ELSE IF ~inp.can_composite
              THEN /\ status' = "Cannot toggle: layer pixel data not readable in this file"
                   /\ UNCHANGED inp
              ELSE With(Refreshed(inp, pf, file.entries,
                                  ToggleOverride(inp.layer_overrides, pf.layers, idx)),
                        LAMBDA done : inp' = done.viewer /\ status' = done.status)
    /\ UNCHANGED <<file, pf, closes, fn, out>>

\* "Hide Layer" / "Show Layer" in the context menu of row idx:
\* _on_layer_context_menu builds the menu, _toggle_layer(idx) runs
ContextToggle ==
    /\ pf # None /\ pf.layers # << >>
    /\ \E idx \in 0 .. inp.rows - 1 :
           /\ last' = Noted("toggle", idx)
           /\ IF idx >= Len(pf.layers)
              THEN \* layers[idx] raises IndexError while the menu is built
                   UNCHANGED <<inp, status>>
              ELSE IF ~inp.can_composite
              THEN /\ status' = "Cannot toggle: layer pixel data not readable"
                   /\ UNCHANGED inp
              ELSE With(Refreshed(inp, pf, file.entries,
                                  ToggleOverride(inp.layer_overrides, pf.layers, idx)),
                        LAMBDA done : inp' = done.viewer /\ status' = done.status)
    /\ UNCHANGED <<file, pf, closes, fn, out>>

\* _show_all_layers() and _hide_all_layers()
SetAllLayers ==
    /\ pf # None /\ pf.layers # << >>
    /\ \E visible \in BOOLEAN :
           /\ last' = Noted(IF visible THEN "show all" ELSE "hide all", -1)
           /\ With(Refreshed(inp, pf, file.entries,
                             VDict([i \in 0 .. Len(pf.layers) - 1 |-> visible])),
                   LAMBDA done : inp' = done.viewer /\ status' = done.status)
    /\ UNCHANGED <<file, pf, closes, fn, out>>

\* _reset_layers(): "Reset to Original"
ResetLayers ==
    /\ pf # None /\ pf.layers # << >>
    /\ last' = Noted("reset", -1)
    /\ inp' = [inp EXCEPT !.layer_overrides = VDict(<< >>),
                          !.display_image = inp.original_image,
                          !.rows = RowsFor(pf)]
    /\ status' = "Layer visibility reset to original"
    /\ UNCHANGED <<file, pf, closes, fn, out>>

NextViewer == OpenFile \/ OnLayerToggle \/ ContextToggle \/ SetAllLayers \/ ResetLayers

SpecViewer == InitViewer /\ [][NextViewer]_vars

(***************************************************************************)
(* The first-run setup dialog (SetupDialog)                                *)
(*                                                                         *)
(* inp is the dialog: _installing, result, the three option variables,     *)
(* the two buttons, the progress bar and label, _reg_ok, _viewer_exe and   *)
(* whether the window was destroyed.  out is what the dialog runs in: the  *)
(* marker file, the script file, the callback Tk holds for `after`, the    *)
(* registration thread and the number of threads started.  fn names the    *)
(* handler or thread step that ran last, and last keeps the event with the *)
(* dialog and the surroundings it found.  The handlers of the Tk main loop *)
(* run one at a time; the registration thread runs beside them.            *)
(***************************************************************************)
ProgressCeiling == 88

\* __init__ and _build_ui: nothing installing, every option checked, Skip and
\* Install enabled, the progress bar not shown.
NewSetupDialog ==
    [installing |-> FALSE, result |-> FALSE, destroyed |-> FALSE,
     var_assoc |-> TRUE, var_thumbs |-> TRUE, var_shortcut |-> TRUE,
     btn_go |-> [state |-> "normal", text |-> "Install", command |-> "_on_install"],
     btn_skip |-> [state |-> "normal", packed |-> TRUE],
     pbar |-> 0, pbar_shown |-> FALSE, plbl |-> "",
     reg_ok |-> "unset", viewer_exe |-> "unset"]

\* What _on_skip writes into the marker, and _get_setup_paths' viewer_exe.
SkipMarker(frozen) == IF frozen THEN "sys.executable" ELSE "dev"

ViewerExe(frozen) == IF frozen THEN "sys.executable" ELSE "procreate_viewer.py"

\* _on_skip: nothing while _installing is set; otherwise the result is False,
\* the marker is written where the file can be written, and the window is
\* destroyed.
OnSkip(self, env, writable) ==
    IF self.installing
    THEN [self |-> self, env |-> env]
    ELSE [self |-> [self EXCEPT !.result = FALSE, !.destroyed = TRUE],
          env |-> IF writable
                  THEN [env EXCEPT !.marker = SkipMarker(env.frozen)]
                  ELSE env]

\* _on_install: nothing while _installing is set; a skip when no option is
\* checked; otherwise the guard is set, both buttons are disabled, the
\* progress bar is shown at 0 and _step_extract is scheduled.
OnInstall(self, env, writable) ==
    IF self.installing
    THEN [self |-> self, env |-> env]
    ELSE IF ~self.var_assoc /\ ~self.var_thumbs /\ ~self.var_shortcut
    THEN OnSkip(self, env, writable)
    ELSE [self |-> [self EXCEPT !.installing = TRUE,
                                !.btn_go = [@ EXCEPT !.state = "disabled",
                                                     !.text = "Installing"],
                                !.btn_skip = [@ EXCEPT !.state = "disabled"],
                                !.pbar_shown = TRUE,
                                !.pbar = 0],
          env |-> [env EXCEPT !.pending = "_step_extract"]]

StepFinish_ClearsInstalling(self, env, writable, shortcut_made) ==
    With([self EXCEPT !.pbar = 100], LAMBDA s :
        IF s.reg_ok = "unset"
        THEN [self |-> s, env |-> env]
        ELSE With([s EXCEPT !.btn_go = [state |-> "normal", text |-> "Done",
                                        command |-> "destroy"],
                            !.btn_skip = [@ EXCEPT !.packed = FALSE],
                            !.installing = FALSE],
                  LAMBDA done :
            IF s.reg_ok = "True"
            THEN [self |-> [done EXCEPT !.plbl = "Setup complete", !.result = TRUE],
                  env |-> [env EXCEPT
                              !.shortcut = @ \/ (s.var_shortcut /\ shortcut_made),
                              !.marker = IF writable THEN s.viewer_exe ELSE @]]
            ELSE [self |-> [done EXCEPT !.plbl = "Setup was cancelled or failed",
                                        !.result = FALSE],
                  env |-> env]))

\* _step_finish: the bar goes to 100; reading _reg_ok raises when the thread
\* never assigned it, and the handler ends there.  On success the shortcut is
\* created when asked for, the marker is written with _viewer_exe and the
\* result is True; on failure the result is False.  Then Install becomes
\* Done, with destroy as its command, and Skip is taken out of the window.
\* _installing is not assigned.
StepFinish(self, env, writable, shortcut_made) ==
    With([self EXCEPT !.pbar = 100], LAMBDA s :
        IF s.reg_ok = "unset"
        THEN [self |-> s, env |-> env]
        ELSE With([s EXCEPT !.btn_go = [state |-> "normal", text |-> "Done",
                                        command |-> "destroy"],
                            !.btn_skip = [@ EXCEPT !.packed = FALSE]],
                  LAMBDA done :
            IF s.reg_ok = "True"
            THEN [self |-> [done EXCEPT !.plbl = "Setup complete", !.result = TRUE],
                  env |-> [env EXCEPT
                              !.shortcut = @ \/ (s.var_shortcut /\ shortcut_made),
                              !.marker = IF writable THEN s.viewer_exe ELSE @]]
            ELSE [self |-> [done EXCEPT !.plbl = "Setup was cancelled or failed",
                                        !.result = FALSE],
                  env |-> env]))

\* _poll: while the thread is alive the bar creeps up to the ceiling and the
\* poll is scheduled again; once it is not, _step_finish runs.
Poll(self, env, writable, shortcut_made) ==
    IF env.thread = "alive"
    THEN [self |-> [self EXCEPT !.pbar = IF @ < ProgressCeiling THEN @ + 1 ELSE @],
          env |-> [env EXCEPT !.pending = "_poll"]]
    ELSE StepFinish(self, [env EXCEPT !.pending = ""], writable, shortcut_made)

\* _do_register, first statement: _run_ps1_elevated returns True or False and
\* _reg_ok is assigned, or it raises while writing its log and the thread
\* ends with _reg_ok never assigned.
DoRegisterRun(self, env, ok) ==
    IF ok = "raised"
    THEN [self |-> self, env |-> [env EXCEPT !.thread = "dead", !.pc = ""]]
    ELSE [self |-> [self EXCEPT !.reg_ok = ok],
          env |-> [env EXCEPT !.pc = "remove"]]

\* _do_register, the rest: the script is removed where it can be, and the
\* thread ends.
DoRegisterRemove(self, env, removed) ==
    [self |-> self,
     env |-> [env EXCEPT !.thread = "dead", !.pc = "",
                         !.tmp = IF removed THEN FALSE ELSE @]]

\* The event that ran, with the dialog and the surroundings it found.
Event(op) == [op |-> op, before |-> inp, env |-> out]

\* main shows the dialog when no marker names this executable and the
\* registry holds no association: the marker is absent, or, in a frozen
\* build, names another place.
InitSetup ==
    /\ NoDocument
    /\ fn = ""
    /\ inp = NewSetupDialog
    /\ out \in {[frozen |-> f, marker |-> m, tmp |-> FALSE, shortcut |-> FALSE,
                 pending |-> "", thread |-> "none", pc |-> "", started |-> 0] :
                    f \in BOOLEAN, m \in {"", "moved"}}
    /\ out.marker = "moved" => out.frozen

\* A click on one of the three option cards.
ClickOption ==
    /\ ~inp.destroyed
    /\ \E name \in {"var_assoc", "var_thumbs", "var_shortcut"} :
           inp' = [inp EXCEPT ![name] = ~@]
    /\ fn' = "option"
    /\ last' = Event("option")
    /\ UNCHANGED <<file, status, pf, closes, out>>

\* A click on Skip, which Tk delivers while the button is in the window and
\* enabled.
ClickSkip ==
    /\ ~inp.destroyed
    /\ inp.btn_skip.packed /\ inp.btn_skip.state = "normal"
    /\ \E writable \in BOOLEAN :
           With(OnSkip(inp, out, writable), LAMBDA r :
               inp' = r.self /\ out' = r.env)
    /\ fn' = "_on_skip"
    /\ last' = Event("skip")
    /\ UNCHANGED <<file, status, pf, closes>>

\* The window manager's close request, bound to _on_skip whatever the state
\* of the buttons.
WindowClose ==
    /\ ~inp.destroyed
    /\ \E writable \in BOOLEAN :
           With(OnSkip(inp, out, writable), LAMBDA r :
               inp' = r.self /\ out' = r.env)
    /\ fn' = "_on_skip"
    /\ last' = Event("close")
    /\ UNCHANGED <<file, status, pf, closes>>

\* A click on the right-hand button while it is enabled: _on_install, or
\* destroy once _step_finish has made it Done.
ClickGo ==
    /\ ~inp.destroyed
    /\ inp.btn_go.state = "normal"
    /\ IF inp.btn_go.command = "destroy"
       THEN /\ inp' = [inp EXCEPT !.destroyed = TRUE]
            /\ fn' = "destroy"
            /\ UNCHANGED out
       ELSE /\ \E writable \in BOOLEAN :
                   With(OnInstall(inp, out, writable), LAMBDA r :
                       inp' = r.self /\ out' = r.env)
            /\ fn' = "_on_install"
    /\ last' = Event("go")
    /\ UNCHANGED <<file, status, pf, closes>>

\* _step_extract: label and bar, the library is copied where it can be, and
\* _step_prepare is scheduled.
StepExtract ==
    /\ out.pending = "_step_extract"
    /\ inp' = [inp EXCEPT !.plbl = "Extracting components", !.pbar = 10]
    /\ out' = [out EXCEPT !.pending = "_step_prepare"]
    /\ fn' = "_step_extract"
    /\ last' = Event("after")
    /\ UNCHANGED <<file, status, pf, closes>>

\* _step_prepare: label and bar, _viewer_exe, and the script written to the
\* temporary directory; when the script cannot be written the handler raises
\* and schedules nothing.
StepPrepare ==
    /\ out.pending = "_step_prepare"
    /\ inp' = [inp EXCEPT !.plbl = "Preparing registration", !.pbar = 25,
                          !.viewer_exe = ViewerExe(out.frozen)]
    /\ \E writable \in BOOLEAN :
           out' = IF writable
                  THEN [out EXCEPT !.tmp = TRUE, !.pending = "_step_register"]
                  ELSE [out EXCEPT !.pending = ""]
    /\ fn' = "_step_prepare"
    /\ last' = Event("after")
    /\ UNCHANGED <<file, status, pf, closes>>

\* _step_register: label and bar, the thread is started, and _poll is called
\* at once, with the thread as far as it has come by then.
StepRegister ==
    /\ out.pending = "_step_register"
    /\ \E ahead \in 0 .. 2, ok \in {"True", "False", "raised"},
          removed \in BOOLEAN, writable \in BOOLEAN, shortcut_made \in BOOLEAN :
           With([self |-> [inp EXCEPT !.plbl = "Registering with Windows",
                                      !.pbar = 40],
                 env |-> [out EXCEPT !.started = @ + 1, !.thread = "alive",
                                     !.pc = "run"]],
                LAMBDA started :
           With(IF ahead = 0 THEN started
                ELSE DoRegisterRun(started.self, started.env, ok),
                LAMBDA one :
           With(IF ahead = 2 /\ one.env.thread = "alive"
                THEN DoRegisterRemove(one.self, one.env, removed)
                ELSE one,
                LAMBDA two :
           With(Poll(two.self, two.env, writable, shortcut_made), LAMBDA r :
               inp' = r.self /\ out' = r.env))))
    /\ fn' = "_step_register"
    /\ last' = Event("after")
    /\ UNCHANGED <<file, status, pf, closes>>

\* The scheduled _poll.
PollAgain ==
    /\ out.pending = "_poll"
    /\ \E writable \in BOOLEAN, shortcut_made \in BOOLEAN :
           With(Poll(inp, out, writable, shortcut_made), LAMBDA r :
               inp' = r.self /\ out' = r.env)
    /\ fn' = "_poll"
    /\ last' = Event("after")
    /\ UNCHANGED <<file, status, pf, closes>>

\* The thread's first step, as an action.
ThreadRegister ==
    /\ out.thread = "alive" /\ out.pc = "run"
    /\ \E ok \in {"True", "False", "raised"} :
           With(DoRegisterRun(inp, out, ok), LAMBDA r :
               inp' = r.self /\ out' = r.env)
    /\ fn' = "_do_register"
    /\ UNCHANGED <<file, status, pf, closes, last>>

\* The thread's second step, as an action.
ThreadRemove ==
    /\ out.thread = "alive" /\ out.pc = "remove"
    /\ \E removed \in BOOLEAN :
           With(DoRegisterRemove(inp, out, removed), LAMBDA r :
               inp' = r.self /\ out' = r.env)
    /\ fn' = "_do_register"
    /\ UNCHANGED <<file, status, pf, closes, last>>

NextSetup ==
    \/ ClickOption \/ ClickSkip \/ WindowClose \/ ClickGo
    \/ StepExtract \/ StepPrepare \/ StepRegister \/ PollAgain
    \/ ThreadRegister \/ ThreadRemove

SpecSetup == InitSetup /\ [][NextSetup]_vars

(***************************************************************************)
(* The document's life: open, render, close                                *)
(***************************************************************************)
Init ==
    /\ file \in Containers
    /\ status = "new"
    /\ pf = NewProcreateFile
    /\ closes = 0
    /\ last = [op |-> ""]
    /\ fn = ""
    /\ inp = None
    /\ out = None

\* pf = ProcreateFile(path)
Open ==
    /\ status = "new"
    /\ LET r == Load(file) IN
       /\ pf' = r.self
       /\ status' = IF r.raised = "" THEN "open" ELSE "failed"
       /\ last' = [op |-> "open", raised |-> r.raised]
    /\ UNCHANGED <<file, closes, fn, inp, out>>

\* pf.load_layer_image(layer_index)
CallLoadLayerImage ==
    /\ status = "open"
    /\ \E layer_index \in -1 .. MaxLayers :
           last' = [op |-> "load_layer_image", arg |-> layer_index,
                    result |-> LoadLayerImage(pf, file.entries, layer_index)]
    /\ UNCHANGED <<file, status, pf, closes, fn, inp, out>>

\* A mutation of CallCompositeLayers: the call writes each override it used into
\* the layer's visible flag and takes it out of the caller's map.
CallCompositeLayers_StoresOverrides ==
    /\ status = "open"
    /\ \E visibility_overrides \in OverrideMaps(Len(pf.layers)) :
           /\ last' = With(CompositeLayers(pf, file.entries, visibility_overrides),
                           LAMBDA done :
                               [op |-> "composite_layers", arg |-> visibility_overrides,
                                result |-> done.result, loaded |-> done.loaded,
                                blended |-> done.blended,
                                overrides |-> IF visibility_overrides = None THEN None
                                              ELSE VDict(<< >>)])
           /\ pf' = [pf EXCEPT !.layers =
                        [i \in 1 .. Len(pf.layers) |->
                            [pf.layers[i] EXCEPT !.visible =
                                EffectiveVisible(pf.layers[i], i - 1,
                                                 visibility_overrides)]]]
    /\ UNCHANGED <<file, status, closes, fn, inp, out>>

\* pf.composite_layers(visibility_overrides)
CallCompositeLayers ==
    /\ status = "open"
    /\ \E visibility_overrides \in OverrideMaps(Len(pf.layers)) :
           last' = With(CompositeLayers(pf, file.entries, visibility_overrides),
                        LAMBDA done :
                            [op |-> "composite_layers", arg |-> visibility_overrides,
                             result |-> done.result, loaded |-> done.loaded,
                             blended |-> done.blended,
                             \* the caller's map after the call: it is only read
                             overrides |-> visibility_overrides])
    /\ UNCHANGED <<file, status, pf, closes, fn, inp, out>>

\* pf.get_best_image()
CallGetBestImage ==
    /\ status = "open"
    /\ last' = [op |-> "get_best_image", result |-> GetBestImage(pf)]
    /\ UNCHANGED <<file, status, pf, closes, fn, inp, out>>

\* pf.get_file_list()
CallGetFileList ==
    /\ status = "open"
    /\ last' = [op |-> "get_file_list", result |-> GetFileList(pf, file)]
    /\ UNCHANGED <<file, status, pf, closes, fn, inp, out>>

\* pf.extract_thumbnail_bytes()
CallExtractThumbnailBytes ==
    /\ status = "open"
    /\ last' = [op |-> "extract_thumbnail_bytes",
                result |-> ExtractThumbnailBytes(pf, file)]
    /\ UNCHANGED <<file, status, pf, closes, fn, inp, out>>

\* pf.close(), directly, from __exit__ at the end of a with block, or from
\* __del__ when the object is collected.  An object whose constructor raised is
\* held by nobody, only __del__ reaches it.  closes counts the releases of the
\* archive handle.
Close ==
    /\ status \in {"open", "failed"}
    /\ \E via \in IF status = "open" THEN {"close", "__exit__", "__del__"}
                   ELSE {"__del__"} :
           LET done == CloseSelf(pf) IN
           /\ pf' = done.self
           /\ closes' = closes + done.released
           /\ last' = [op |-> "close", via |-> via, found_open |-> pf.zip]
    /\ UNCHANGED <<file, status, fn, inp, out>>

Next ==
    \/ Open \/ CallLoadLayerImage \/ CallCompositeLayers \/ CallGetBestImage
    \/ CallGetFileList \/ CallExtractThumbnailBytes \/ Close

Spec == Init /\ [][Next]_vars

(***************************************************************************)
(* Properties of opening and rendering a document                          *)
(***************************************************************************)
\* composite_layers has just returned, on a document whose constructor returned.
Composited == status = "open" /\ last.op = "composite_layers"

PositiveCanvas == pf.canvas_width > 0 /\ pf.canvas_height > 0

LayerIndices == 0 .. Len(pf.layers) - 1

\* The override map names every layer index and sets each to not-visible.
HidesAll(overrides) ==
    /\ overrides.t = "dict"
    /\ DOMAIN overrides.v = LayerIndices
    /\ \A i \in LayerIndices : ~overrides.v[i]

\* C1 as stated: on an opened document with a positive canvas, composite_layers
\* with an override map that hides every layer returns a fully transparent
\* image of exactly canvas_width x canvas_height.
HideAllYieldsTransparentCanvas ==
    (Composited /\ pf.zip /\ PositiveCanvas /\ HidesAll(last.arg)) =>
        /\ last.result.t = "image"
        /\ last.result.width = pf.canvas_width
        /\ last.result.height = pf.canvas_height
        /\ \A p \in DOMAIN last.result.px : last.result.px[p][4] = 0

\* C1 as amended: on an opened document with a positive canvas, composite_layers
\* with an override map that hides every layer loads no layer and returns None,
\* never an image.
HideAllYieldsNone ==
    (Composited /\ pf.zip /\ PositiveCanvas /\ HidesAll(last.arg)) =>
        /\ last.result = None
        /\ last.loaded = <<>>

\* Every layer of a two-layer document has been hidden by the override map, the
\* first of them a layer that load_layer_image yields an image for, and
\* composite_layers returned None.
HideAllWitness ==
    /\ Composited /\ pf.zip /\ PositiveCanvas /\ HidesAll(last.arg)
    /\ Len(pf.layers) = 2
    /\ pf.layers[1].visible
    /\ LoadLayerImage(pf, file.entries, 0).t = "image"
    /\ last.result = None

\* The container is a valid archive and what it holds under the metadata entry
\* names does not decode: no property list under either name, bytes that
\* plistlib rejects under at least one.
GarbageMetadata ==
    /\ file.kind = "zip"
    /\ \E k \in 1 .. 2 : file.archive[k].kind = "garbage"
    /\ \A k \in 1 .. 2 : file.archive[k].kind # "plist"

\* C2 as stated: opening a valid archive whose metadata entry is garbage raises
\* nothing, leaves the document with zero layers, and sets the canvas width and
\* height to the loaded thumbnail's.
GarbageMetadataFallsBackToThumbnail ==
    (status # "new" /\ GarbageMetadata) =>
        /\ status = "open"
        /\ pf.layers = <<>>
        /\ pf.thumbnail.t = "image" =>
               /\ pf.canvas_width = pf.thumbnail.width
               /\ pf.canvas_height = pf.thumbnail.height

\* The document has one layer, visible and of opacity 1.0, that load_layer_image
\* yields an image for, and the overrides of the last composite_layers call did
\* not hide it.
SingleFullLayerComposited ==
    /\ Composited /\ pf.zip
    /\ Len(pf.layers) = 1
    /\ pf.layers[1].visible
    /\ pf.layers[1].opacity = 4
    /\ ~(last.arg.t = "dict" /\ 0 \in DOMAIN last.arg.v /\ ~last.arg.v[0])
    /\ LoadLayerImage(pf, file.entries, 0).t = "image"

\* C4 as stated: for a single visible layer of opacity 1.0 with a decodable
\* tile, composite_layers returns an image equal in all four channels at every
\* pixel, the fully transparent ones included, to load_layer_image(0).
SingleLayerCompositeEqualsLayerImage ==
    SingleFullLayerComposited => last.result = LoadLayerImage(pf, file.entries, 0)

\* C4 as amended: for a single visible layer of opacity 1.0 with a decodable
\* tile, composite_layers returns an image of the size of load_layer_image(0)
\* that equals it in all four channels at every pixel whose alpha is not zero;
\* every pixel whose alpha is zero comes out as (255, 255, 255, 0), the fill of
\* the compositor's canvas.
SingleLayerCompositeEqualsLayerWherePainted ==
    SingleFullLayerComposited =>
        With(LoadLayerImage(pf, file.entries, 0), LAMBDA layer_img :
            /\ last.result.t = "image"
            /\ last.result.width = layer_img.width
            /\ last.result.height = layer_img.height
            /\ DOMAIN last.result.px = DOMAIN layer_img.px
            /\ \A p \in DOMAIN layer_img.px :
                   last.result.px[p] = IF layer_img.px[p][4] = 0
                                       THEN <<255, 255, 255, 0>>
                                       ELSE layer_img.px[p])

\* A single full-opacity layer has been composited whose image has a pixel of
\* alpha zero and a pixel of alpha 128.
SingleLayerWitness ==
    /\ SingleFullLayerComposited
    /\ With(LoadLayerImage(pf, file.entries, 0), LAMBDA layer_img :
           /\ \E p \in DOMAIN layer_img.px : layer_img.px[p][4] = 0
           /\ \E p \in DOMAIN layer_img.px :
                  layer_img.px[p][4] = 128 /\ last.result.px[p] = layer_img.px[p])

\* The override map that gives every layer its native visible flag.
NativeVisibility == VDict([i \in LayerIndices |-> pf.layers[i + 1].visible])

\* C5: composite_layers with no override map, and with an empty one, returns
\* what it returns for the map that gives every layer its native visible flag.
NoOverridesIsNativeVisibility ==
    (Composited /\ (last.arg.t = "none" \/ last.arg = VDict(EmptyDict))) =>
        last.result = CompositeLayers(pf, file.entries, NativeVisibility).result

\* composite_layers has returned an image for an empty override map, on a
\* document that has a visible layer and a natively hidden layer that
\* load_layer_image yields an image for.
NoOverridesWitness ==
    /\ Composited /\ pf.zip
    /\ last.arg = VDict(EmptyDict)
    /\ last.result.t = "image"
    /\ \E i \in LayerIndices : pf.layers[i + 1].visible
    /\ \E i \in LayerIndices :
           /\ ~pf.layers[i + 1].visible
           /\ LoadLayerImage(pf, file.entries, i).t = "image"

\* Layer i's visibility under an override map, as C7 words it: the map's value
\* for key i when the map contains i, the layer's native flag otherwise.
EffectiveUnder(overrides, i) ==
    IF overrides.t = "dict" /\ i \in DOMAIN overrides.v
    THEN overrides.v[i]
    ELSE pf.layers[i + 1].visible

InSeq(x, seq) == \E k \in 1 .. Len(seq) : seq[k] = x

\* The override map with the entry for index i set to b.
WithOverride(overrides, i, b) ==
    LET old == IF overrides.t = "dict" THEN overrides.v ELSE EmptyDict
    IN  VDict([k \in DOMAIN old \cup {i} |-> IF k = i THEN b ELSE old[k]])

\* C7: on a positive canvas composite_layers calls load_layer_image for exactly
\* the layers whose effective visibility is true (the override for i when there
\* is one, layer i's native flag otherwise), blends only layers it loaded, and
\* changing the override for index i changes for no other layer j whether it is
\* loaded or blended.
OverridesDecideVisibilityPerLayer ==
    (Composited /\ PositiveCanvas) =>
        /\ \A i \in LayerIndices :
               /\ InSeq(i, last.loaded) <=> EffectiveUnder(last.arg, i)
               /\ InSeq(i, last.blended) => InSeq(i, last.loaded)
        /\ \A i \in LayerIndices, b \in BOOLEAN :
               With(CompositeLayers(pf, file.entries, WithOverride(last.arg, i, b)),
                    LAMBDA other :
                        \A j \in LayerIndices \ {i} :
                            /\ InSeq(j, other.loaded) <=> InSeq(j, last.loaded)
                            /\ InSeq(j, other.blended) <=> InSeq(j, last.blended))

\* The overrides hid the natively visible layer 0 and showed the natively hidden
\* layer 1: only layer 1 was loaded and blended.
OverridesWitness ==
    /\ Composited /\ pf.zip /\ PositiveCanvas
    /\ Len(pf.layers) = 2
    /\ pf.layers[1].visible /\ ~pf.layers[2].visible
    /\ last.arg = VDict([k \in 0 .. 1 |-> k = 1])
    /\ last.loaded = <<1>>
    /\ last.blended = <<1>>

\* The image composite_layers blends for layer i: load_layer_image(i), its alpha
\* scaled when the layer's opacity is below 1.0.
SourceImage(i) ==
    With(LoadLayerImage(pf, file.entries, i), LAMBDA layer_img :
        IF pf.layers[i + 1].opacity < 4
        THEN ScaleAlpha(layer_img, pf.layers[i + 1].opacity)
        ELSE layer_img)

\* C8: the layers are blended in increasing index order, each over what was
\* accumulated before it: at every pixel where a blended layer is opaque and
\* every blended layer of higher index is fully transparent, the result is that
\* layer's pixel, so of two opaque pixels the one of the higher index shows.
HigherLayerCoversLower ==
    (Composited /\ last.result.t = "image") =>
        /\ \A k \in 1 .. Len(last.blended) - 1 : last.blended[k] < last.blended[k + 1]
        /\ With([k \in 1 .. Len(last.blended) |-> SourceImage(last.blended[k])],
                LAMBDA src :
                    \A p \in DOMAIN last.result.px : \A k \in DOMAIN src :
                        ( /\ src[k].px[p][4] = 255
                          /\ \A j \in k + 1 .. Len(src) : src[j].px[p][4] = 0 )
                            => last.result.px[p] = src[k].px[p])

\* Layers 0 and 1 were blended, both opaque and of different colours at some
\* pixel, and the result shows the pixel of layer 1 there.
HigherLayerWitness ==
    /\ Composited /\ last.result.t = "image"
    /\ last.blended = <<0, 1>>
    /\ \E p \in DOMAIN last.result.px :
           /\ SourceImage(0).px[p][4] = 255
           /\ SourceImage(1).px[p][4] = 255
           /\ SourceImage(0).px[p] # SourceImage(1).px[p]
           /\ last.result.px[p] = SourceImage(1).px[p]

\* The document has one layer, of opacity 0.5, and composite_layers returned an
\* image.
HalfOpacityLayerComposited ==
    /\ Composited /\ pf.zip
    /\ Len(pf.layers) = 1
    /\ pf.layers[1].opacity = 2
    /\ last.result.t = "image"

\* What composite_layers returns for the same call when the single layer's
\* opacity is 1.0.
FullOpacityComposite ==
    CompositeLayers([pf EXCEPT !.layers[1].opacity = 4], file.entries, last.arg).result

\* C9 as stated: for a single layer of opacity 0.5 every pixel of the composite
\* has exactly half the alpha it has with opacity 1.0 and the same red, green
\* and blue.
HalfOpacityHalvesAlpha ==
    HalfOpacityLayerComposited =>
        With(FullOpacityComposite, LAMBDA full :
            \A p \in DOMAIN last.result.px :
                /\ 2 * last.result.px[p][4] = full.px[p][4]
                /\ \A c \in 1 .. 3 : last.result.px[p][c] = full.px[p][c])

\* C9 as amended: when one layer is blended, a pixel of alpha a of its layer
\* image enters the blend with alpha int(a * opacity), truncated, when the
\* opacity is below 1.0 (and not negative) and with alpha a otherwise, its red,
\* green and blue untouched; the composite shows that pixel, or
\* (255, 255, 255, 0) where that alpha is zero.  For a single layer of opacity
\* 0.5 the composite's alpha is the alpha with opacity 1.0 halved and rounded
\* down, and the colours are those with opacity 1.0 wherever it is not zero.
OpacityTruncatesAlphaOnly ==
    /\ (Composited /\ Len(last.blended) = 1) =>
           With(LoadLayerImage(pf, file.entries, last.blended[1]), LAMBDA layer_img :
               LET opacity == pf.layers[last.blended[1] + 1].opacity IN
               \A p \in DOMAIN last.result.px :
                   LET a == layer_img.px[p][4]
                       scaled == IF opacity < 4 THEN (a * opacity) \div 4 ELSE a
                   IN  last.result.px[p] =
                           IF scaled = 0 THEN <<255, 255, 255, 0>>
                           ELSE << layer_img.px[p][1], layer_img.px[p][2],
                                   layer_img.px[p][3], scaled >>)
    /\ HalfOpacityLayerComposited =>
           With(FullOpacityComposite, LAMBDA full :
               \A p \in DOMAIN last.result.px :
                   /\ last.result.px[p][4] = full.px[p][4] \div 2
                   /\ last.result.px[p][4] # 0 =>
                          \A c \in 1 .. 3 : last.result.px[p][c] = full.px[p][c])

\* A single layer of opacity 0.5 has been composited: a pixel of alpha 255 came
\* out with alpha 127 and its colour, a pixel of alpha 1 as (255, 255, 255, 0).
HalfOpacityWitness ==
    /\ HalfOpacityLayerComposited
    /\ With(FullOpacityComposite, LAMBDA full :
           /\ \E p \in DOMAIN full.px :
                  /\ full.px[p][4] = 255
                  /\ last.result.px[p] = [full.px[p] EXCEPT ![4] = 127]
           /\ \E p \in DOMAIN full.px :
                  /\ full.px[p] = <<10, 20, 30, 1>>
                  /\ last.result.px[p] = <<255, 255, 255, 0>>)

\* load_layer_image has just returned for a layer index of the open document,
\* a layer with an identifier, on a positive canvas.
LayerLoaded ==
    /\ status = "open" /\ last.op = "load_layer_image"
    /\ pf.zip /\ PositiveCanvas
    /\ last.arg \in LayerIndices
    /\ pf.layers[last.arg + 1].uuid # ""

\* The container's tile entries of layer i, by their place in the name list.
LayerTiles(i) ==
    { k \in 1 .. Len(file.entries) :
        /\ file.entries[k].dir = pf.layers[i + 1].uuid
        /\ LowerExt(file.entries[k].ext) \in TileExts }

\* Entry k decodes: its name gives a column and a row, it can be read, and the
\* decode chain yields pixels of the expected size.
Decodes(k, tile_size) ==
    /\ TileCoords(file.entries[k].stem).t # "none"
    /\ file.entries[k].readable
    /\ DecodeTile(file.entries[k].raw, ExpectedSize(tile_size)).t # "none"

\* Pixel p lies in the square of the tile of entry k.
Covers(k, p, tile_size) ==
    LET at == TileCoords(file.entries[k].stem)
    IN  /\ at.col * tile_size <= p[1] /\ p[1] < (at.col + 1) * tile_size
        /\ at.row * tile_size <= p[2] /\ p[2] < (at.row + 1) * tile_size

\* The red, green, blue, alpha that entry k stores for pixel p.
StoredPixel(k, p, tile_size) ==
    LET at == TileCoords(file.entries[k].stem)
        bytes == DecodeTile(file.entries[k].raw, ExpectedSize(tile_size)).v
        o == 4 * ((p[2] - at.row * tile_size) * tile_size + (p[1] - at.col * tile_size))
    IN  << bytes[o + 3], bytes[o + 2], bytes[o + 1], bytes[o + 4] >>

IsRaster(img, w, h) ==
    /\ img.t = "image"
    /\ img.width = w /\ img.height = h
    /\ DOMAIN img.px = Coords(w, h)
    /\ \A p \in DOMAIN img.px :
           /\ Len(img.px[p]) = 4
           /\ \A c \in 1 .. 4 : img.px[p][c] \in 0 .. 255

\* C11: every image that load_layer_image or composite_layers returns is an RGBA
\* raster of exactly canvas_width x canvas_height, also where the canvas is not
\* a whole number of tiles.
ImagesHaveCanvasSize ==
    (/\ status = "open"
     /\ last.op \in {"load_layer_image", "composite_layers"}
     /\ last.result # None) =>
        IsRaster(last.result, pf.canvas_width, pf.canvas_height)

\* load_layer_image returned an image for a canvas three pixels wide stored in
\* tiles of side two.
ImagesWitness ==
    /\ status = "open" /\ last.op = "load_layer_image"
    /\ last.result # None
    /\ GetTileSize(pf) = 2
    /\ pf.canvas_width = 3
    /\ last.result.width = 3

\* Layer i is effectively visible under the override map and load_layer_image
\* yields an image for it.
Contributes(overrides, i) ==
    /\ EffectiveUnder(overrides, i)
    /\ LoadLayerImage(pf, file.entries, i) # None

OpenFailsOnlyOnContainer ==
    (status # "new" /\ file.kind = "zip") => status = "open"

\* C13: close() is idempotent, whether called directly, by __exit__ or by
\* __del__, on an opened object and on one whose constructor raised before or
\* after the archive handle was acquired: once close has been called the handle
\* is gone and has been released once if it was ever acquired (never twice), and
\* a call that finds the handle gone changes nothing.
CloseIsIdempotent ==
    /\ [](last.op = "close" =>
             /\ ~pf.zip
             /\ closes = IF file.kind = "zip" THEN 1 ELSE 0)
    /\ [][(last'.op = "close" /\ ~last'.found_open) =>
             (pf' = pf /\ closes' = closes)]_vars

\* The finalizer runs on an object that was opened and then closed: it finds
\* the handle gone, and the handle has been released once.
CloseWitness ==
    /\ status = "open"
    /\ last.op = "close" /\ last.via = "__del__" /\ ~last.found_open
    /\ closes = 1 /\ ~pf.zip

(***************************************************************************)
(* Properties of the chained-block decoder                                 *)
(***************************************************************************)
\* C15: the chained-block decoder holds every tile to a limit on the declared
\* uncompressed size of a sub-block and to a limit on the number of sub-blocks,
\* and rejects a tile beyond either before it asks for a buffer of the declared
\* size.  Stated for the streams at hand with the widest limits they can exceed:
\* no buffer of 2^31 - 1 bytes (the most the decompressor takes) is asked for,
\* and fewer than MaxChainedBlocks buffers are asked for.
ChainedDecoderEnforcesLimits ==
    fn = "decode_chained" =>
        /\ \A k \in 1 .. Len(out.requested) : out.requested[k] < 2147483647
        /\ Len(out.requested) < MaxChainedBlocks

\* The stream is cut where its pieces end: every block's compressed size is the
\* length of its payload and half a header can only be the last piece.
Aligned(pieces) ==
    \A k \in 1 .. Len(pieces) :
        /\ pieces[k].kind = "block" => pieces[k].c = LE32(Len(pieces[k].payload))
        /\ pieces[k].kind = "cut" => k = Len(pieces)

\* What C16 says the pieces decode to, given the previous sub-block's output:
\* each block is decompressed against that output alone, the outputs are
\* concatenated, and the terminator, a foreign tag or the end of the stream ends
\* the reading.
RECURSIVE ChainedOutput(_, _)
ChainedOutput(pieces, previous) ==
    IF pieces = <<>> THEN VBytes(<<>>)
    ELSE IF Head(pieces).kind \in {"end", "junk"} THEN VBytes(<<>>)
    ELSE IF Head(pieces).kind = "cut" THEN Raised("struct.error")
    ELSE LET chunk == Lz4Decompress(Head(pieces).payload,
                                    UnpackLE32(Head(pieces).u, 0), previous)
         IN  IF IsRaised(chunk) THEN chunk
             ELSE LET rest == ChainedOutput(Tail(pieces), chunk.v)
                  IN  IF IsRaised(rest) THEN rest ELSE VBytes(chunk.v \o rest.v)

\* C16: the dictionary of the first sub-block is empty and that of every later
\* one is exactly the output of the sub-block before it; the result is the
\* outputs concatenated in input order, and reading stops at the terminator tag,
\* at a tag that is not the block tag, or at the end of the input.
ChainedDictIsPreviousOutput ==
    fn = "decode_chained" =>
        /\ \A k \in 1 .. Len(out.dicts) :
               out.dicts[k] = IF k = 1 THEN <<>> ELSE out.bv_parts[k - 1]
        /\ (Aligned(inp.pieces) /\ inp.pieces # <<>>
                /\ inp.pieces[1].kind = "block") =>
               LET expected == ChainedOutput(inp.pieces, <<>>)
               IN  out.pixels = IF IsRaised(expected) THEN None ELSE expected

\* Three sub-blocks were decoded, the third a match that took its two bytes from
\* the second's output, and the result is the three outputs in order.
ChainedWitness ==
    /\ fn = "decode_chained"
    /\ Len(out.bv_parts) = 3
    /\ out.bv_parts[1] = <<30>>
    /\ out.bv_parts[2] = <<10, 20>>
    /\ inp.pieces[3].payload = <<1, 2>>
    /\ out.pixels = VBytes(<<30, 10, 20, 10, 20>>)

(***************************************************************************)
(* Termination of the chained-block loop                                   *)
(***************************************************************************)
\* A step of the running loop leaves it or moves off on by twelve bytes or more.
LeavesOrAdvances ==
    fn = "bv41 loop" => (out'.stop # "" \/ out'.off >= out.off + 12)

\* C27 as stated: the loop terminates for every payload and every value of the
\* size fields, each iteration leaves the loop or advances the offset by at
\* least 12 bytes, and the number of iterations is at most len(raw) / 12.
ChainedLoopWithinLengthOverTwelve ==
    /\ <>(fn = "done")
    /\ [][LeavesOrAdvances]_vars
    /\ [](fn # "" => 12 * out.iterations <= Len(inp.raw))

\* C27, amended: the loop terminates for every payload and every value of the
\* size fields; each iteration leaves the loop or advances the offset by at
\* least 12 bytes; at most len(raw) / 12 iterations advance, and the body is
\* entered at most once more than that, by the iteration that leaves.
ChainedLoopTerminates ==
    /\ <>(fn = "done")
    /\ [][LeavesOrAdvances]_vars
    /\ [](fn # "" => /\ 12 * out.advanced <= Len(inp.raw)
                     /\ out.iterations <= out.advanced + 1)

\* The loop has ended at the terminator tag after two blocks: three iterations
\* on a payload shorter than 36 bytes.
ChainedLoopWitness ==
    /\ fn = "done" /\ out.stop = "terminator"
    /\ out.advanced = 2 /\ out.iterations = 3
    /\ Len(inp.raw) < 36

(***************************************************************************)
(* Properties of the metadata parsing                                      *)
(***************************************************************************)
\* The root object as C17 words it, read off the metadata entry.
ClaimedRoot(entry) ==
    LET value == IF entry.kind = "plist" THEN entry.value ELSE None
        top == IF value.t = "dict" THEN DictGet(value.v, "$top", None) ELSE None
        objects == IF value.t = "dict" THEN DictGet(value.v, "$objects", None)
                   ELSE None
        array == IF objects.t = "list" THEN objects.v ELSE <<>>
        resolved == ResolveUid(IF top.t = "dict" THEN DictGet(top.v, "root", None)
                               ELSE None, array)
    IN  IF resolved.t = "dict" THEN resolved
        ELSE IF Len(array) > 1 /\ array[2].t = "dict" THEN array[2]
        ELSE None

\* C17: the root object is what "$top"."root" resolves to when that is a
\* mapping; otherwise the object at index 1 when the object array has more than
\* one element and that one is a mapping; otherwise None.  It is None when the
\* metadata did not load.
RootIsTopRootElseIndexOne ==
    fn = "_get_root_object" => out = ClaimedRoot(inp)

\* The value _get_int reads from v, where it reads one.
Supplied(v) == GetInt("k" :> v, << "k" >>, 0)

\* C18: after a successful open canvas_width >= 0, canvas_height >= 0 and
\* dpi > 0, and dpi is 132 unless the metadata supplies a positive DPI, whatever
\* number or four-byte blob the metadata holds for the three fields.
CanvasNonNegativeDpiPositive ==
    (fn = "open" /\ out.raised = "") =>
        /\ out.self.canvas_width >= 0
        /\ out.self.canvas_height >= 0
        /\ out.self.dpi > 0
        /\ out.self.dpi = IF Supplied(inp.dpi) > 0 THEN Supplied(inp.dpi) ELSE 132

(***************************************************************************)
(* What a value under an alias yields: the integer of a number or of a     *)
(* four-byte big-endian blob, None for anything else.                      *)
(***************************************************************************)
YieldOf(v) ==
    IF IsNumber(v) THEN VInt(ToInt(v))
    ELSE IF v.t = "bytes" /\ Len(v.v) = 4 THEN VInt(UnpackBE32(v.v))
    ELSE None

\* The first value in alias order that yields an integer, else the thumbnail's
\* dimension when a thumbnail was loaded, else 0.
RECURSIVE FirstYieldElse(_, _)
FirstYieldElse(values, otherwise) ==
    IF values = <<>> THEN otherwise
    ELSE IF YieldOf(Head(values)) # None THEN YieldOf(Head(values)).v
    ELSE FirstYieldElse(Tail(values), otherwise)

\* C24: canvas width and height are each the first value, in alias order, that
\* is present on the root object and is numeric or a four-byte big-endian
\* blob, values of any other type being skipped; the thumbnail's dimension is
\* used only when no alias yields a value and a thumbnail was loaded, and 0
\* when there is neither.
CanvasIsFirstAliasElseThumbnail ==
    (fn = "open" /\ out.raised = "") =>
        LET thumbnail == inp.container.thumbnail IN
        /\ out.self.canvas_width =
               FirstYieldElse(inp.widths,
                              IF thumbnail # None THEN thumbnail.width ELSE 0)
        /\ out.self.canvas_height =
               FirstYieldElse(inp.heights,
                              IF thumbnail # None THEN thumbnail.height ELSE 0)

(***************************************************************************)
(* Properties of the layer parsing                                         *)
(***************************************************************************)
\* The document opened and its first layer was built from the layer mapping of
\* inp.f, by the primary path or by the scan.
FirstLayerFromFields ==
    /\ fn = "open" /\ out.raised = ""
    /\ inp.rooted = "root" /\ inp.f.classed
    /\ inp.classname = VStr("SilicaLayer")
    /\ inp.refs \in { VList(<<>>), VList(<< VUid(3) >>) }

Missing(v) == v.t = "none"

\* C19: every layer that parsing builds, on the primary path or by the scan, has
\* an opacity within [0.0, 1.0] (0 .. 4 in quarters), a boolean visibility and
\* an integer blend mode, and a field that is missing or of the wrong type gives
\* the default: the positional name, the empty identifier, opacity 1.0, visible,
\* blend 0.
LayerFieldsTypedAndDefaulted ==
    /\ (fn = "open" /\ out.raised = "") =>
           \A k \in 1 .. Len(out.self.layers) :
               /\ out.self.layers[k].opacity \in 0 .. 4
               /\ out.self.layers[k].visible \in BOOLEAN
               /\ out.self.layers[k].blend_mode \in Int
    /\ FirstLayerFromFields =>
           LET layer == out.self.layers[1] IN
           /\ (Missing(inp.f.name) \/ inp.f.name.t = "list") => layer.name = "Layer 1"
           /\ (Missing(inp.f.uuid) \/ inp.f.uuid.t = "float") => layer.uuid = ""
           /\ (Missing(inp.f.opacity) \/ inp.f.opacity.t = "str") => layer.opacity = 4
           /\ (Missing(inp.f.hidden) \/ inp.f.hidden.t = "str") => layer.visible
           /\ (Missing(inp.f.blend) \/ inp.f.blend.t = "str") => layer.blend_mode = 0

\* The number of layers the layer list yields: the references of the root
\* object's layer array that resolve to a mapping.
PrimaryCount ==
    IF inp.rooted = "root" /\ inp.refs.t = "list"
    THEN Cardinality({ k \in 1 .. Len(inp.refs.v) :
                         ResolveUid(inp.refs.v[k], inp.objects).t = "dict" })
    ELSE 0

\* The objects C20 has the scan pick, in object-array order: mappings whose
\* "$class" resolves to a mapping whose class name contains the marker.
MarkedObjects ==
    SelectSeq(inp.objects, LAMBDA obj :
        /\ obj.t = "dict"
        /\ LET cls == ResolveUid(DictGet(obj.v, "$class", None), inp.objects) IN
           /\ cls.t = "dict"
           /\ LET classname == DictGet(cls.v, "$classname", VStr("")) IN
              classname.t = "str" /\ ContainsLayerMarker(classname.v))

\* C20: the scan runs exactly when the layer list yields no layer; it adds one
\* layer per marked object, in object-array order, each with an empty
\* identifier, so that load_layer_image returns None for each and
\* composite_layers returns None for the document.
FallbackIffPrimaryEmpty ==
    (fn = "open" /\ out.raised = "") =>
        LET layers == out.self.layers IN
        /\ PrimaryCount > 0 => Len(layers) = PrimaryCount
        /\ PrimaryCount = 0 =>
              /\ Len(layers) = Len(MarkedObjects)
              /\ \A k \in 1 .. Len(layers) :
                     /\ layers[k].uuid = ""
                     /\ LoadLayerImage(out.self, inp.container.entries, k - 1) = None
              /\ Len(layers) = 2 => layers[2].name = "Second"
              /\ CompositeLayers(out.self, inp.container.entries, None).result = None


(***************************************************************************)
(* Properties of the loaded document                                       *)
(***************************************************************************)
\* The calls that read the document.
ReadingCalls ==
    { "load_layer_image", "composite_layers", "get_best_image", "get_file_list" }

\* What a document is: its canvas, resolution, orientation, colour profile and
\* its layers, each with name, identifier, opacity, visibility and blend mode.
DocumentOf(self) ==
    [canvas_width |-> self.canvas_width, canvas_height |-> self.canvas_height,
     dpi |-> self.dpi, orientation |-> self.orientation,
     color_profile |-> self.color_profile, layers |-> self.layers]

\* C21: after load the document is immutable: every call of load_layer_image,
\* composite_layers, get_best_image and get_file_list, after whatever calls came
\* before it, leaves the canvas dimensions, dpi, orientation, colour profile and
\* the layer list with every layer's fields as they were, and composite_layers
\* leaves the caller's override map as it was passed.
DocumentImmutableAfterLoad ==
    [][last'.op \in ReadingCalls =>
           /\ DocumentOf(pf') = DocumentOf(pf)
           /\ last'.op = "composite_layers" => last'.overrides = last'.arg]_vars

\* composite_layers has returned an image for a document of two layers under a
\* map that overrides the native visibility of a layer, after a close-free life.
ImmutableWitness ==
    /\ status = "open" /\ pf.zip
    /\ last.op = "composite_layers"
    /\ Len(pf.layers) = 2
    /\ last.result.t = "image"
    /\ last.arg # None
    /\ \E i \in DOMAIN last.arg.v : last.arg.v[i] # pf.layers[i + 1].visible
    /\ last.overrides = last.arg


(***************************************************************************)
(* Properties of the tile assembly                                         *)
(***************************************************************************)
\* The entries of s enumerated in the order f, a permutation of its indices.
Reordered(s, f) == [k \in 1 .. Len(s) |-> s[f[k]]]

\* C22: the image load_layer_image returns does not depend on the order in
\* which the layer's tile entries are enumerated: every permutation of the
\* container's name list yields the same image.
TileOrderIrrelevant ==
    fn = "load_layer_image" =>
        \A f \in Permutations(1 .. Len(inp.entries)) :
            LoadLayerImage(Load(inp).self, Reordered(inp.entries, f), 0) = out


\* The tile entry e decodes on a document of the given tile side.
EntryDecodes(e, tile_size) == ChunkPixels(e, ExpectedSize(tile_size)) # None

\* The pixels of the square that the name of entry e gives it.
SquareOf(e, tile_size) ==
    LET at == TileCoords(e.stem) IN
    { p \in (at.col * tile_size .. (at.col + 1) * tile_size - 1)
              \X (at.row * tile_size .. (at.row + 1) * tile_size - 1) : TRUE }

\* Red, green, blue, alpha of the pixel p of the canvas in the bytes of entry e,
\* which hold rows of pixels stored blue, green, red, alpha.
PixelOf(e, p, tile_size) ==
    LET at == TileCoords(e.stem)
        bytes == ChunkPixels(e, ExpectedSize(tile_size)).v
        o == 4 * ((p[2] - at.row * tile_size) * tile_size + (p[1] - at.col * tile_size))
    IN  << bytes[o + 3], bytes[o + 2], bytes[o + 1], bytes[o + 4] >>

\* C23: every successfully decoded tile named <col><sep><row> fills exactly the
\* square with origin (col * tile_side, row * tile_side) and side tile_side,
\* clipped to the canvas, with its bytes reordered from blue-green-red-alpha to
\* red-green-blue-alpha, and every canvas pixel no decoded tile covers is
\* fully transparent.
DecodedTileFillsItsSquare ==
    fn = "load_layer_image" =>
        With(Load(inp).self, LAMBDA self :
        With(GetTileSize(self), LAMBDA tile_size :
            LET decoded == { k \in 1 .. Len(inp.entries) :
                               EntryDecodes(inp.entries[k], tile_size) }
                canvas == Coords(self.canvas_width, self.canvas_height)
            IN  decoded # {} =>
                    /\ out.t = "image"
                    /\ DOMAIN out.px = canvas
                    /\ \A k \in decoded :
                           \A p \in SquareOf(inp.entries[k], tile_size) \cap canvas :
                               out.px[p] = PixelOf(inp.entries[k], p, tile_size)
                    /\ \A p \in canvas :
                           (\A k \in decoded : p \notin SquareOf(inp.entries[k], tile_size))
                               => out.px[p] = <<0, 0, 0, 0>>))


(***************************************************************************)
(* Properties of the archive handle                                        *)
(***************************************************************************)
\* C25: the archive handle is released on every exit path of open: when the
\* constructor has raised, the object holds no open handle at the moment the
\* error reaches the caller, before any finalizer has run.
FailedOpenReleasesHandle ==
    (last.op = "open" /\ last.raised # "") => ~pf.zip


\* C26: after close(), in any later sequence of calls, load_layer_image returns
\* None for every index, composite_layers returns None for every override map,
\* get_file_list returns an empty list and extract_thumbnail_bytes returns
\* None, none of them raises or reads the released handle, and the loaded
\* metadata, layer list, thumbnail and preview are what they were after load.
ClosedDocumentAnswersAbsent ==
    (status = "open" /\ closes > 0) =>
        /\ ~pf.zip
        /\ last.op = "load_layer_image" => last.result = None
        /\ last.op = "composite_layers" =>
               last.result = None /\ last.blended = << >>
        /\ last.op = "get_file_list" => last.result = << >>
        /\ last.op = "extract_thumbnail_bytes" => last.result = None
        /\ With(Load(file).self, LAMBDA loaded :
               /\ DocumentOf(pf) = DocumentOf(loaded)
               /\ pf.metadata = loaded.metadata
               /\ pf.thumbnail = loaded.thumbnail
               /\ pf.composite = loaded.composite
               /\ last.op = "get_best_image" => last.result = GetBestImage(loaded))

\* load_layer_image(0) has returned None on a closed document that holds a
\* thumbnail, for a layer whose image it returned while the document was open.
ClosedDocumentWitness ==
    /\ status = "open" /\ closes = 1 /\ ~pf.zip
    /\ last.op = "load_layer_image" /\ last.arg = 0 /\ last.result = None
    /\ pf.thumbnail # None
    /\ Len(pf.layers) = 1
    /\ LoadLayerImage(Load(file).self, file.entries, 0) # None


\* The grid cell of entry e lies inside the tile grid of the canvas.
InsideGrid(e, self, tile_size) ==
    LET at == TileCoords(e.stem) IN
    /\ 0 <= at.col /\ at.col < TileCount(self.canvas_width, tile_size)
    /\ 0 <= at.row /\ at.row < TileCount(self.canvas_height, tile_size)

\* The tile entries that decode, and those of them inside the grid.
DecodedEntries(tile_size) ==
    { k \in 1 .. Len(inp.entries) : EntryDecodes(inp.entries[k], tile_size) }

DecodedInside(self, tile_size) ==
    { k \in DecodedEntries(tile_size) : InsideGrid(inp.entries[k], self, tile_size) }

ToggledTwice ==
    /\ last # None /\ last.op = "toggle" /\ last.can_composite
    /\ last.previous # None /\ last.previous.op = "toggle"
    /\ last.previous.idx = last.idx /\ last.previous.can_composite
    /\ pf # None /\ last.idx < Len(pf.layers)

\* Two toggles of a layer restore its effective visibility and leave every
\* other layer's override as it was.
TwoTogglesRestore ==
    ToggledTwice =>
        /\ CurrentVisibility(inp.layer_overrides, pf.layers, last.idx)
               = CurrentVisibility(last.previous.before, pf.layers, last.idx)
        /\ \A j \in 0 .. Len(pf.layers) - 1 :
               j # last.idx =>
                   /\ j \in DOMAIN inp.layer_overrides.v
                          <=> j \in DOMAIN last.previous.before.v
                   /\ j \in DOMAIN inp.layer_overrides.v =>
                          inp.layer_overrides.v[j] = last.previous.before.v[j]

\* Without compositing a toggle leaves the override map as it was.
ToggleWithoutCompositing ==
    (last # None /\ last.op = "toggle" /\ ~last.can_composite) =>
        inp.layer_overrides = last.before

\* C29 as stated: with compositing available, toggling the same layer twice
\* restores its effective visibility and changes no other layer's override;
\* without compositing a toggle leaves the override map unchanged; opening a
\* file or choosing "Reset to Original" leaves the override map empty.
TogglesRestoreOpenAndResetEmpty ==
    /\ TwoTogglesRestore
    /\ ToggleWithoutCompositing
    /\ (last # None /\ last.op \in {"open", "reset"}) =>
           inp.layer_overrides = VDict(<< >>)

\* C29, amended: as stated for toggles and for "Reset to Original"; opening a
\* file leaves the override map empty when the file opens, and leaves the map
\* as it was when the file fails to open (the document shown before has then
\* been closed and stays in the viewer).
TogglesRestoreOpenedAndResetEmpty ==
    /\ TwoTogglesRestore
    /\ ToggleWithoutCompositing
    /\ (last # None /\ last.op = "reset") => inp.layer_overrides = VDict(<< >>)
    /\ (last # None /\ last.op = "open") =>
           IF status = "Error opening file"
           THEN /\ inp.layer_overrides = last.before
                /\ pf # None => ~pf.zip
           ELSE inp.layer_overrides = VDict(<< >>)

\* A file has failed to open after the second layer of a two-layer document
\* was toggled twice while the first layer had an override: the map still holds
\* both overrides and the document is closed.
ViewerWitness ==
    /\ last # None /\ last.op = "open" /\ status = "Error opening file"
    /\ last.previous # None /\ last.previous.op = "toggle"
    /\ last.previous.can_composite /\ last.previous.idx = 1
    /\ last.previous.previous # None /\ last.previous.previous.op = "toggle"
    /\ last.previous.previous.idx = 1
    /\ 0 \in DOMAIN last.previous.previous.before.v
    /\ pf # None /\ ~pf.zip /\ Len(pf.layers) = 2
    /\ DOMAIN inp.layer_overrides.v = {0, 1}
    /\ inp.layer_overrides.v[1] = pf.layers[2].visible


(***************************************************************************)
(* Properties of the setup dialog's _installing guard                      *)
(***************************************************************************)
\* The registration thread has ended and _poll has seen it end.
RegistrationFinished(env) == env.thread = "dead" /\ env.pending = ""

\* The step just taken was _on_skip, called while the guard was set.
SkipWhileInstalling ==
    fn = "_on_skip" /\ last # None /\ last.before.installing

\* While the guard is set, _on_skip writes nothing and destroys nothing, and
\* no second thread is ever started.
GuardHoldsSkipAndThreads ==
    /\ out.started <= 1
    /\ (SkipWhileInstalling /\ ~RegistrationFinished(last.env)) =>
           inp = last.before /\ out = last.env

\* C30 as stated: the guard is active exactly from the Install click until
\* the registration thread has finished; in between, no second thread is
\* started and Skip or a window close neither writes the marker nor destroys
\* the dialog; once registration has finished, Skip or a window close is
\* honoured again and closes the dialog.
SetupGuardOnlyWhileRegistering ==
    /\ GuardHoldsSkipAndThreads
    /\ inp.installing <=> (inp.pbar_shown /\ ~RegistrationFinished(out))
    /\ (fn = "_on_skip" /\ last # None /\ RegistrationFinished(last.env)) =>
           inp.destroyed

\* C30, amended: the guard is set by the Install click and never cleared.
\* From that click on, whether the registration thread is still to start, is
\* running or has finished, no second thread is started and Skip or a window
\* close neither writes the marker nor destroys the dialog; the dialog is
\* then destroyed only by the Done button that _step_finish leaves, and the
\* marker is written only by _step_finish after a successful registration.
SetupGuardLatched ==
    /\ GuardHoldsSkipAndThreads
    /\ inp.installing <=> inp.pbar_shown
    /\ SkipWhileInstalling => inp = last.before /\ out = last.env
    /\ (inp.destroyed /\ inp.installing) =>
           /\ fn = "destroy" /\ last.before.btn_go.command = "destroy"
           /\ RegistrationFinished(out) /\ inp.reg_ok # "unset"
    /\ (inp.installing /\ out.marker \notin {"", "moved"}) =>
           /\ inp.reg_ok = "True" /\ inp.result
           /\ out.marker = inp.viewer_exe

\* A window close has arrived after a successful registration, with the
\* marker written and Done showing, and has left the dialog in place.
SetupWitness ==
    /\ fn = "_on_skip" /\ last # None /\ last.op = "close"
    /\ RegistrationFinished(last.env) /\ last.before.btn_go.command = "destroy"
    /\ inp.installing /\ ~inp.destroyed
    /\ inp.reg_ok = "True" /\ inp.result
    /\ out.started = 1 /\ out.marker = inp.viewer_exe

====
